---- MODULE Spec2Model ----
(***************************************************************************)
(* A model of the metric-scoring engine of fr-rap-classement               *)
(* (src/data-pipeline): the phonetic layer, the Flow / Hook / Punchline    *)
(* text analyzers, the table-driven analyzers and the Innovation analyzer  *)
(* with its lazily built corpus model.                                     *)
(*                                                                         *)
(* Representation of Python values                                         *)
(*  - a word (str without blanks) is a sequence of characters, each        *)
(*    character a one-element atom.  TLA+ strings are ASCII, so the        *)
(*    non-ASCII code points of the source are transliterated:              *)
(*      e' = e-acute   e! = e-grave   e^ = e-circumflex  e: = e-diaeresis  *)
(*      a! a^ a:  i^ i:  o^  u! u^ u:  c, = c-cedilla  oe& = oe ligature   *)
(*      ae& = ae ligature                                                  *)
(*    and the IPA code points of the rhyme table and the g2p rules         *)
(*      :E = U+025B   :A = U+0251   :O = U+0254   :~ = U+0303 (combining   *)
(*      tilde)  :R = U+0281  :S = U+0283  :J = U+0272  :0 = U+00F8         *)
(*      :Z = U+0292                                                        *)
(*    A nasal vowel of the source is TWO code points (vowel + U+0303),     *)
(*    exactly as Python's len() and slicing see it.                        *)
(*  - floats are exact rationals or fixed-point integers, as noted at      *)
(*    each operator.                                                       *)
(***************************************************************************)
EXTENDS Integers, Sequences, FiniteSets, TLC

VARIABLES
    word1,      \* rhymes_with: first argument
    word2,      \* rhymes_with: second argument
    rhyme,      \* rhymes_with: result per strictness ("none" | "true" | "false")
    lyrics,     \* the text handed to a text analyzer: a sequence of lines
    result,     \* the last call of a pure function: [fn |-> name, ...]
    original,   \* the text before a brand mention was inserted into it
    previous,   \* the result of the call on the original text
    artist,     \* the identifier handed to a table-driven component
    corpus, \* the corpus handed to the Innovation analyzer
    library,        \* the statistical library as the analyzer finds it
    analyzer,   \* the fields of the InnovationAnalyzer instance
    reference,  \* the same instance had the library worked
    batch,      \* the batch run under way and the artists it has left
    history,    \* the calls made on the analyzer, with what they returned
    calls,      \* how often fit_transform ran and the vocabulary was built
    artists,    \* the artist list of the migration, with the stored metrics
    external,   \* the Wikipedia and awards data collected for the artists
    scores,     \* the mapping compute_all_scores has filled so far
    run,        \* the phase of the migration and what happened in it
    db,         \* the tables of the SQLite database of LyricsDatabase
    journal,    \* the last call on the database, with the tables before it
    pipeline,   \* the global _nlp of the tokenizer and the models loaded
    artists_json \* the content of the file artists.json

phonVars  == <<word1, word2, rhyme>>
textVars  == <<lyrics, result>>
brandVars == <<original, previous>>
artistVars == <<artist>>
innovVars == <<corpus, library, analyzer, reference, batch, history, calls>>
migrateVars == <<artists, external, scores, run>>
storeVars == <<db, journal, pipeline, artists_json>>

vars == <<phonVars, textVars, brandVars, artistVars, innovVars, migrateVars, storeVars>>

-----------------------------------------------------------------------------
(* Generic sequence helpers                                                *)

Min(a, b) == IF a <= b THEN a ELSE b
Max(a, b) == IF a >= b THEN a ELSE b

\* s[-n:] of Python for n >= 1
LastN(s, n) == IF Len(s) >= n THEN SubSeq(s, Len(s) - n + 1, Len(s)) ELSE s

\* str.endswith
EndsWith(s, suf) ==
    /\ Len(s) >= Len(suf)
    /\ SubSeq(s, Len(s) - Len(suf) + 1, Len(s)) = suf

\* re.sub(pat, rep, s) for a literal pattern: leftmost, non-overlapping
RECURSIVE ReSub(_, _, _)
ReSub(s, pat, rep) ==
    IF Len(s) < Len(pat) THEN s
    ELSE IF SubSeq(s, 1, Len(pat)) = pat
         THEN rep \o ReSub(SubSeq(s, Len(pat) + 1, Len(s)), pat, rep)
         ELSE <<Head(s)>> \o ReSub(Tail(s), pat, rep)

\* the sequence s with every element computed once
Eager(s) == s \o <<>>

\* All sequences over S of length lo..hi
SeqsBetween(S, lo, hi) == UNION {[1..n -> S] : n \in lo..hi}

-----------------------------------------------------------------------------
(* nlp/phonetics.py                                                        *)

\* str.lower() on one character
UPPERCASE == <<"A","B","C","D","E","F","G","H","I","J","K","L","M",
               "N","O","P","Q","R","S","T","U","V","W","X","Y","Z">>
LOWERCASE == <<"a","b","c","d","e","f","g","h","i","j","k","l","m",
               "n","o","p","q","r","s","t","u","v","w","x","y","z">>
LowerChar(c) ==
    IF \E i \in 1..26 : UPPERCASE[i] = c
    THEN LOWERCASE[CHOOSE i \in 1..26 : UPPERCASE[i] = c]
    ELSE c
Lower(s) == [i \in 1..Len(s) |-> LowerChar(s[i])]

\* str.strip(): leading and trailing blanks removed
RECURSIVE LStrip(_)
LStrip(s) == IF s # <<>> /\ Head(s) = " " THEN LStrip(Tail(s)) ELSE s
RECURSIVE RStrip(_)
RStrip(s) ==
    IF s # <<>> /\ s[Len(s)] = " " THEN RStrip(SubSeq(s, 1, Len(s) - 1)) ELSE s
Strip(s) == RStrip(LStrip(s))

\* RHYME_PATTERNS, in the dict's insertion order: <<suffix, phoneme>>
RHYME_PATTERNS == <<
    << <<"o","i","r">>,          <<"w","a",":R">> >>,
    << <<"o","i","r","e">>,      <<"w","a",":R">> >>,
    << <<"e","u","r">>,          <<"oe&",":R">> >>,
    << <<"e","u","r","e">>,      <<"oe&",":R">> >>,
    << <<"e","r">>,              <<"e">> >>,
    << <<"e'">>,                 <<"e">> >>,
    << <<"e'","e">>,             <<"e">> >>,
    << <<"e'","s">>,             <<"e">> >>,
    << <<"e'","e","s">>,         <<"e">> >>,
    << <<"t","i","o","n">>,      <<"s","j",":O",":~">> >>,
    << <<"s","i","o","n">>,      <<"z","j",":O",":~">> >>,
    << <<"m","e","n","t">>,      <<"m",":A",":~">> >>,
    << <<"a","n","t">>,          <<":A",":~">> >>,
    << <<"e","n","t">>,          <<":A",":~">> >>,
    << <<"a","n","t","s">>,      <<":A",":~">> >>,
    << <<"e","n","t","s">>,      <<":A",":~">> >>,
    << <<"a","i","n">>,          <<":E",":~">> >>,
    << <<"e","i","n">>,          <<":E",":~">> >>,
    << <<"i","n">>,              <<":E",":~">> >>,
    << <<"o","n">>,              <<":O",":~">> >>,
    << <<"o","n","s">>,          <<":O",":~">> >>,
    << <<"o","u">>,              <<"u">> >>,
    << <<"o","u","s">>,          <<"u">> >>,
    << <<"o","u","t">>,          <<"u">> >>,
    << <<"a","g","e">>,          <<"a",":Z">> >>,
    << <<"a","g","e","s">>,      <<"a",":Z">> >>,
    << <<"i","q","u","e">>,      <<"i","k">> >>,
    << <<"i","q","u","e","s">>,  <<"i","k">> >>
>>

\* the ordered substitution rules of _fallback_g2p: <<pattern, replacement>>
G2P_REPLACEMENTS == <<
    << <<"e","a","u">>, <<"o">> >>,
    << <<"a","u">>,     <<"o">> >>,
    << <<"o","u">>,     <<"u">> >>,
    << <<"o","i">>,     <<"w","a">> >>,
    << <<"a","i">>,     <<":E">> >>,
    << <<"e","i">>,     <<":E">> >>,
    << <<"a","n">>,     <<":A",":~">> >>,
    << <<"e","n">>,     <<":A",":~">> >>,
    << <<"a","m">>,     <<":A",":~">> >>,
    << <<"e","m">>,     <<":A",":~">> >>,
    << <<"o","n">>,     <<":O",":~">> >>,
    << <<"o","m">>,     <<":O",":~">> >>,
    << <<"i","n">>,     <<":E",":~">> >>,
    << <<"i","m">>,     <<":E",":~">> >>,
    << <<"a","i","n">>, <<":E",":~">> >>,
    << <<"e","i","n">>, <<":E",":~">> >>,
    << <<"u","n">>,     <<"oe&",":~">> >>,
    << <<"u","m">>,     <<"oe&",":~">> >>,
    << <<"e","u">>,     <<":0">> >>,
    << <<"o","e","u">>, <<":0">> >>,
    << <<"o","e">>,     <<":0">> >>,
    << <<"c","h">>,     <<":S">> >>,
    << <<"g","n">>,     <<":J">> >>,
    << <<"q","u">>,     <<"k">> >>,
    << <<"g","u">>,     <<"g">> >>,
    << <<"p","h">>,     <<"f">> >>,
    << <<"t","h">>,     <<"t">> >>,
    << <<"c,">>,        <<"s">> >>,
    << <<"e'">>,        <<"e">> >>,
    << <<"e!">>,        <<":E">> >>,
    << <<"e^">>,        <<":E">> >>,
    << <<"a!">>,        <<"a">> >>,
    << <<"a^">>,        <<"a">> >>,
    << <<"u!">>,        <<"u">> >>,
    << <<"u^">>,        <<"u">> >>,
    << <<"i^">>,        <<"i">> >>,
    << <<"i:">>,        <<"i">> >>,
    << <<"o^">>,        <<"o">> >>
>>

\* for pattern, replacement in replacements: result = re.sub(...)
RECURSIVE ApplyReplacements(_, _, _)
ApplyReplacements(s, rules, k) ==
    IF s = <<>> \/ k > Len(rules) THEN s
    ELSE ApplyReplacements(ReSub(s, rules[k][1], rules[k][2]), rules, k + 1)

\* re.sub(r"[esxzt]$", "", result)
SILENT_FINALS == {"e", "s", "x", "z", "t"}
StripSilentFinal(s) ==
    IF s # <<>> /\ s[Len(s)] \in SILENT_FINALS THEN SubSeq(s, 1, Len(s) - 1) ELSE s

\* _fallback_g2p
FallbackG2P(text) ==
    StripSilentFinal(ApplyReplacements(Lower(text), G2P_REPLACEMENTS, 1))

\* get_ipa: "" for blank text, else the fallback rules
GetIpa(text) == IF Strip(text) = <<>> THEN <<>> ELSE FallbackG2P(text)

\* the first RHYME_PATTERNS entry whose suffix ends the word (0: none)
RECURSIVE FirstPattern(_, _)
FirstPattern(w, k) ==
    IF k > Len(RHYME_PATTERNS) THEN 0
    ELSE IF EndsWith(w, RHYME_PATTERNS[k][1]) THEN k
    ELSE FirstPattern(w, k + 1)

\* ipa.replace(" ", "")
RemoveBlanks(s) == ReSub(s, <<" ">>, <<>>)

\* get_phonetic_ending without the slice of the word for an empty transcription
GetPhoneticEnding_NoWordSlice(word, num_phonemes) ==
    IF word = <<>> THEN <<>>
    ELSE LET Ending(w, k) ==
                 IF k # 0 THEN RHYME_PATTERNS[k][2]
                 ELSE LastN(RemoveBlanks(GetIpa(w)), num_phonemes)
             OfWord(w) == Ending(w, FirstPattern(w, 1))
         IN  OfWord(Strip(Lower(word)))

\* get_phonetic_ending
GetPhoneticEnding(word, num_phonemes) ==
    IF word = <<>> THEN <<>>
    ELSE LET Sliced(w, ipa) ==
                 IF ipa # <<>> THEN LastN(RemoveBlanks(ipa), num_phonemes)
                 ELSE LastN(w, num_phonemes)
             Ending(w, k) ==
                 IF k # 0 THEN RHYME_PATTERNS[k][2] ELSE Sliced(w, GetIpa(w))
             OfWord(w) == Ending(w, FirstPattern(w, 1))
         IN  OfWord(Strip(Lower(word)))

\* rhymes_with
EndingsRhyme(ending1, ending2) == ending1 = ending2 /\ ending1 # <<>>
RhymesWith(w1, w2, strictness) ==
    EndingsRhyme(GetPhoneticEnding(w1, strictness), GetPhoneticEnding(w2, strictness))

-----------------------------------------------------------------------------
(* Texts                                                                   *)
(*                                                                         *)
(* A text is a sequence of lines (the pieces of lyrics.split('\n')); a     *)
(* line is a sequence of tokens (the pieces of line.split()), written      *)
(* one blank apart.  <<>> is the empty line and <<" ">> a line holding     *)
(* only white space.  A token is named by a string; SPELLING gives its     *)
(* characters for the code that looks inside words.  A float is kept as   *)
(* an integer in units of 1/1000, each division truncating.                *)

SPELLING ==
       "je"      :> <<"j","e">>
    @@ "suis"    :> <<"s","u","i","s">>
    @@ "le"      :> <<"l","e">>
    @@ "roi"     :> <<"r","o","i">>
    @@ "la"      :> <<"l","a">>
    @@ "vie"     :> <<"v","i","e">>
    @@ "est"     :> <<"e","s","t">>
    @@ "mort"    :> <<"m","o","r","t">>
    @@ "mais"    :> <<"m","a","i","s">>
    @@ "moi"     :> <<"m","o","i">>
    @@ "mandela" :> <<"m","a","n","d","e","l","a">>
    @@ "Mandela" :> <<"M","a","n","d","e","l","a">>
    @@ "comme"   :> <<"c","o","m","m","e">>
    @@ "un"      :> <<"u","n">>
    @@ "enfant"  :> <<"e","n","f","a","n","t">>
    @@ "an"      :> <<"a","n">>
    @@ "tout"    :> <<"t","o","u","t">>
    @@ "strict"  :> <<"s","t","r","i","c","t">>
    @@ "a"       :> <<"a">>
    @@ "y"       :> <<"y">>
    @@ "eu"      :> <<"e","u">>
    @@ "ou"      :> <<"o","u">>
    @@ "on"      :> <<"o","n">>
    @@ "rue"     :> <<"r","u","e">>
    @@ "nft"     :> <<"n","f","t">>
    @@ "booba"   :> <<"b","o","o","b","a">>
    @@ "pnl"     :> <<"p","n","l">>
    @@ "b2o"     :> <<"b","2","o">>
    @@ "kery"    :> <<"k","e","r","y">>
    @@ "x"       :> <<"x">>
    @@ "james"   :> <<"j","a","m","e","s">>
    @@ "dieu"    :> <<"d","i","e","u">>
    @@ "foi"     :> <<"f","o","i">>
    @@ "wallah"  :> <<"w","a","l","l","a","h">>
    @@ "va"      :> <<"v","a">>
    @@ "?"       :> <<"?">>
    @@ "Gucci"   :> <<"G","u","c","c","i">>
    @@ "gucci"   :> <<"g","u","c","c","i">>
    @@ "Louis"   :> <<"L","o","u","i","s">>
    @@ "louis"   :> <<"l","o","u","i","s">>
    @@ "Vuitton" :> <<"V","u","i","t","t","o","n">>
    @@ "vuitton" :> <<"v","u","i","t","t","o","n">>
    @@ "Richard" :> <<"R","i","c","h","a","r","d">>
    @@ "richard" :> <<"r","i","c","h","a","r","d">>
    @@ "Mille"   :> <<"M","i","l","l","e">>
    @@ "mille"   :> <<"m","i","l","l","e">>
    @@ "drill"   :> <<"d","r","i","l","l">>
    @@ "afro"    :> <<"a","f","r","o">>
    @@ " "       :> <<" ">>

Vocab == DOMAIN SPELLING
Spell(tok) == SPELLING[tok]

\* str.lower() on a token: the tokens that hold a capital, lowered
LOWERED ==
       "Mandela" :> "mandela"
    @@ "Gucci"   :> "gucci"
    @@ "Louis"   :> "louis"
    @@ "Vuitton" :> "vuitton"
    @@ "Richard" :> "richard"
    @@ "Mille"   :> "mille"
LowerTok(tok) == IF tok \in DOMAIN LOWERED THEN LOWERED[tok] ELSE tok

LowerLine(line) == Eager([i \in 1..Len(line) |-> LowerTok(line[i])])

\* line.strip(): the line without its white space ends
StripLine(line) == SelectSeq(line, LAMBDA tok : tok # " ")

\* the empty string: one line without a word
EmptyText == << <<>> >>

\* [line.strip() for line in lyrics.split('\n') if line.strip()]
NonEmptyLines(text) ==
    LET stripped == Eager([i \in 1..Len(text) |-> StripLine(text[i])])
    IN  SelectSeq(stripped, LAMBDA line : line # <<>>)

\* not lyrics or not lyrics.strip()
IsBlankText(text) == \A i \in 1..Len(text) : StripLine(text[i]) = <<>>

\* the characters of a line, tokens one blank apart
RECURSIVE LineChars(_)
LineChars(line) ==
    IF line = <<>> THEN <<>>
    ELSE IF Len(line) = 1 THEN Spell(line[1])
    ELSE Spell(line[1]) \o <<" ">> \o LineChars(Tail(line))

\* the characters of a text, lines joined by the newline character
RECURSIVE TextChars(_)
TextChars(text) ==
    IF text = <<>> THEN <<>>
    ELSE IF Len(text) = 1 THEN LineChars(text[1])
    ELSE LineChars(text[1]) \o <<"\n">> \o TextChars(Tail(text))

\* the character class [a-z....] of the word regex (c-cedilla is not in it)
LETTERS ==
    {LOWERCASE[i] : i \in 1..26} \cup
    {"a!", "a^", "a:", "e'", "e!", "e^", "e:", "i:", "i^", "o^",
     "u!", "u^", "u:", "oe&", "ae&"}

\* re.findall(r"[a-z...]+", chars): the maximal runs of letters, in order
LetterRuns(chars) ==
    LET n == Len(chars)
        Starts == {i \in 1..n : chars[i] \in LETTERS /\ (i = 1 \/ chars[i - 1] \notin LETTERS)}
        EndOf(i) == CHOOSE j \in i..n :
                        /\ \A k \in i..j : chars[k] \in LETTERS
                        /\ (j = n \/ chars[j + 1] \notin LETTERS)
        Kth(k) == CHOOSE i \in Starts : Cardinality({j \in Starts : j < i}) = k - 1
    IN  Eager([k \in 1..Cardinality(Starts) |-> SubSeq(chars, Kth(k), EndOf(Kth(k)))])

\* re.findall(r"[a-z...]+", line.lower())
RegexWords(line) == LetterRuns(Lower(LineChars(line)))

\* sum and sum of squares of a sequence of integers
RECURSIVE SumRange(_, _, _)
SumRange(s, lo, hi) ==
    IF lo > hi THEN 0
    ELSE IF lo = hi THEN s[lo]
    ELSE LET mid == (lo + hi) \div 2
         IN  SumRange(s, lo, mid) + SumRange(s, mid + 1, hi)
SumSeq(s) == SumRange(s, 1, Len(s))
SumSq(s) == SumSeq([i \in 1..Len(s) |-> s[i] * s[i]])

\* floor of the square root
RECURSIVE ISqrtIn(_, _, _)
ISqrtIn(n, lo, hi) ==
    IF lo >= hi THEN lo
    ELSE LET mid == (lo + hi + 1) \div 2
         IN  IF mid * mid <= n THEN ISqrtIn(n, mid, hi) ELSE ISqrtIn(n, lo, mid - 1)
ISqrt(n) == ISqrtIn(n, 0, Min(n, 46340))

\* round(): Python rounds a tie to the even integer (x in units of 1/1000)
Round(x) ==
    LET q == x \div 1000
        r == x % 1000
    IN  IF 2 * r < 1000 THEN q
        ELSE IF 2 * r > 1000 THEN q + 1
        ELSE IF q % 2 = 0 THEN q ELSE q + 1

-----------------------------------------------------------------------------
(* nlp/phonetics.py: syllables                                             *)

\* the digraphs that count_syllables_french folds into one vowel mark
SYLLABLE_DIGRAPHS == <<
    << <<"e","a","u">>, <<"O">> >>,
    << <<"a","u">>,     <<"O">> >>,
    << <<"o","u">>,     <<"U">> >>,
    << <<"o","i">>,     <<"W">> >>,
    << <<"a","i">>,     <<"E">> >>,
    << <<"e","i">>,     <<"E">> >>,
    << <<"e","u">>,     <<"Y">> >>,
    << <<"o","e","u">>, <<"Y">> >>,
    << <<"o","e">>,     <<"Y">> >>
>>

SYLLABLE_VOWELS ==
    {"a","e","i","o","u","y","a!","a^","a:","e'","e!","e^","e:","i:","i^",
     "o^","u!","u^","u:","oe&","ae&","O","U","W","E","Y"}

\* the number of vowel clusters of a word
RECURSIVE VowelClusters(_, _)
VowelClusters(w, in_vowel) ==
    IF w = <<>> THEN 0
    ELSE IF Head(w) \in SYLLABLE_VOWELS
         THEN (IF in_vowel THEN 0 ELSE 1) + VowelClusters(Tail(w), TRUE)
         ELSE VowelClusters(Tail(w), FALSE)

\* the syllables of one word without the floor of 1 at the end
WordSyllables_NoFloor(word) ==
    LET SilentEs(w, n1) ==
            IF EndsWith(w, <<"e","s">>) /\ Len(w) > 3 THEN Max(1, n1 - 1) ELSE n1
        SilentE(w, n0) ==
            IF EndsWith(w, <<"e">>) /\ Len(w) > 2 /\ w[Len(w) - 1] \notin SYLLABLE_VOWELS
            THEN Max(1, n0 - 1) ELSE n0
        Folded(w) == SilentEs(w, SilentE(w, VowelClusters(w, FALSE)))
    IN  Folded(ApplyReplacements(word, SYLLABLE_DIGRAPHS, 1))

\* the syllables of one word of count_syllables_french
WordSyllables(word) ==
    LET SilentEs(w, n1) ==
            IF EndsWith(w, <<"e","s">>) /\ Len(w) > 3 THEN Max(1, n1 - 1) ELSE n1
        SilentE(w, n0) ==
            IF EndsWith(w, <<"e">>) /\ Len(w) > 2 /\ w[Len(w) - 1] \notin SYLLABLE_VOWELS
            THEN Max(1, n0 - 1) ELSE n0
        Folded(w) == Max(1, SilentEs(w, SilentE(w, VowelClusters(w, FALSE))))
    IN  Folded(ApplyReplacements(word, SYLLABLE_DIGRAPHS, 1))

\* count_syllables_french on a string
CountSyllables(chars) ==
    LET Count(words) == SumSeq([i \in 1..Len(words) |-> WordSyllables(words[i])])
    IN  IF chars = <<>> THEN 0 ELSE Count(LetterRuns(Lower(chars)))

\* count_syllables_french on one line
CountSyllablesFrench(line) == CountSyllables(LineChars(line))

\* syllables_per_line
SyllablesPerLine(text) ==
    LET PerLine(lines) == Eager([i \in 1..Len(lines) |-> CountSyllablesFrench(lines[i])])
    IN  PerLine(NonEmptyLines(text))

\* the coefficient of variation std_dev / mean of a list with a positive
\* sum, in units of 1/1000 (computed to 1/100 and scaled)
CoeffVar(xs) ==
    LET n == Len(xs)
        t == SumSeq(xs)
        a == n * SumSq(xs) - t * t
    IN  10 * ISqrt((a * 10000) \div (t * t))

-----------------------------------------------------------------------------
(* config.py                                                               *)

\* weights in hundredths
FLOW_WEIGHTS ==
    [rhyme_density |-> 40, internal_rhymes |-> 25,
     syllable_variation |-> 20, multisyllabic |-> 15]
HOOK_WEIGHTS ==
    [repetition |-> 35, catchiness |-> 30, rhythm |-> 20, brevity |-> 15]

-----------------------------------------------------------------------------
(* analyzers/flow.py                                                       *)

MIN_LINES == 4

\* the last regex word of every line, "" (<<>>) for a line without words
LastWords(lines) ==
    LET LastOf(words) == IF words # <<>> THEN words[Len(words)] ELSE <<>>
    IN  Eager([i \in 1..Len(lines) |-> LastOf(RegexWords(lines[i]))])

\* get_phonetic_ending on every word of a list
Endings(words, num_phonemes) ==
    Eager([i \in 1..Len(words) |-> GetPhoneticEnding(words[i], num_phonemes)])

\* _calculate_rhyme_density
RhymeDensity(lines) ==
    IF Len(lines) < 2 THEN 0
    ELSE
    LET Density(last_words, endings) ==
            LET n == Len(last_words)
                Consecutive ==
                    {i \in 1..(n - 1) : last_words[i] # <<>> /\ last_words[i + 1] # <<>>}
                Alternating ==
                    {i \in 1..(n - 2) : last_words[i] # <<>> /\ last_words[i + 2] # <<>>}
                total_pairs == Cardinality(Consecutive) + Cardinality(Alternating)
                rhyme_count ==
                    Cardinality({i \in Consecutive : EndingsRhyme(endings[i], endings[i + 1])})
                  + Cardinality({i \in Alternating : EndingsRhyme(endings[i], endings[i + 2])})
            IN  IF total_pairs = 0 THEN 0
                ELSE Min(1000, (rhyme_count * 2 * 1000) \div total_pairs)
        OfWords(last_words) == Density(last_words, Endings(last_words, 2))
    IN  OfWords(LastWords(lines))

\* the rhyming pairs of non-adjacent words of one line
RhymesFound(words) ==
    LET Found(endings) ==
            Cardinality({p \in (1..Len(words)) \X (1..Len(words)) :
                            p[2] >= p[1] + 2 /\ EndingsRhyme(endings[p[1]], endings[p[2]])})
    IN  Found(Endings(words, 2))

\* _calculate_internal_rhymes
InternalRhymes(lines) ==
    IF lines = <<>> THEN 0
    ELSE
    LET FoundIn(words) == IF Len(words) < 4 THEN 0 ELSE RhymesFound(words)
        Score(found) ==
            LET lines_with_internal == Cardinality({i \in 1..Len(lines) : found[i] > 0})
                total_internal == SumSeq([i \in 1..Len(lines) |-> Min(found[i], 3)])
                line_ratio_06 == (lines_with_internal * 600) \div Len(lines)
                avg_half == (total_internal * 500) \div Len(lines)
            IN  Min(1000, line_ratio_06 + Min(avg_half, 400))
    IN  Score(Eager([i \in 1..Len(lines) |-> FoundIn(RegexWords(lines[i]))]))

\* the three zones of the syllable variation score, cv in units of 1/1000
VariationZone(cv) ==
    IF cv < 100 THEN cv * 5
    ELSE IF cv < 350 THEN 800 + (350 - (IF cv >= 250 THEN cv - 250 ELSE 250 - cv)) * 2
    ELSE Max(300, 1000 - (cv - 350) * 2)

\* _calculate_syllable_variation
SyllableVariation(lines) ==
    LET Variation(syllables) ==
            IF Len(syllables) < 4 THEN 500
            ELSE IF SumSeq(syllables) = 0 THEN 0
            ELSE Min(1000, Max(0, VariationZone(CoeffVar(syllables))))
    IN  Variation(SyllablesPerLine(lines))

\* _calculate_multisyllabic_rhymes
MultisyllabicRhymes(lines) ==
    IF Len(lines) < 2 THEN 0
    ELSE
    LET Score(last_words, endings) ==
            LET n == Len(last_words)
                Pairs == {p \in (1..n) \X (1..n) :
                             p[1] < p[2] /\ p[2] < Min(p[1] + 5, n + 1)}
                pairs_checked == Cardinality(Pairs)
                multi_rhymes ==
                    Cardinality({p \in Pairs : EndingsRhyme(endings[p[1]], endings[p[2]])})
            IN  IF pairs_checked = 0 THEN 0
                ELSE Min(1000, (multi_rhymes * 5 * 1000) \div pairs_checked)
        OfWords(last_words) == Score(last_words, Endings(last_words, 3))
    IN  OfWords(SelectSeq(LastWords(lines), LAMBDA w : w # <<>>))

\* calculate_flow_score
CalculateFlowScore(text) ==
    IF IsBlankText(text) THEN 0
    ELSE
    LET Score(lines) ==
            IF Len(lines) < MIN_LINES THEN 0
            ELSE Min(100, Max(0, Round(
                     RhymeDensity(lines) * FLOW_WEIGHTS.rhyme_density
                   + InternalRhymes(lines) * FLOW_WEIGHTS.internal_rhymes
                   + SyllableVariation(lines) * FLOW_WEIGHTS.syllable_variation
                   + MultisyllabicRhymes(lines) * FLOW_WEIGHTS.multisyllabic)))
    IN  Score(NonEmptyLines(text))

\* calculate_flow_metrics
CalculateFlowMetrics(text) ==
    LET Average(syllables) ==
            IF syllables # <<>> THEN (SumSeq(syllables) * 1000) \div Len(syllables) ELSE 0
        Metrics(lines) ==
            IF Len(lines) < MIN_LINES
            THEN [flow_score |-> 0, rhyme_density |-> 0, internal_rhymes |-> 0,
                  syllable_variation |-> 0, multisyllabic_rhymes |-> 0,
                  avg_syllables_per_line |-> 0]
            ELSE [flow_score |-> CalculateFlowScore(text),
                  rhyme_density |-> RhymeDensity(lines),
                  internal_rhymes |-> InternalRhymes(lines),
                  syllable_variation |-> SyllableVariation(lines),
                  multisyllabic_rhymes |-> MultisyllabicRhymes(lines),
                  avg_syllables_per_line |-> Average(SyllablesPerLine(lines))]
    IN  Metrics(NonEmptyLines(text))

-----------------------------------------------------------------------------
(* analyzers/hooks.py                                                      *)

LowerText(text) == Eager([i \in 1..Len(text) |-> LowerLine(text[i])])

\* the pieces of lyrics.split('\n\n'): the runs of lines between empty lines
RECURSIVE SplitParagraphs(_, _)
SplitParagraphs(text, cur) ==
    IF text = <<>> THEN <<cur>>
    ELSE IF Head(text) = <<>> THEN <<cur>> \o SplitParagraphs(Tail(text), <<>>)
    ELSE SplitParagraphs(Tail(text), Append(cur, Head(text)))

\* p.strip() on a run of lines: no white space lines at either end
RECURSIVE LStripLines(_)
LStripLines(ls) ==
    IF ls # <<>> /\ StripLine(Head(ls)) = <<>> THEN LStripLines(Tail(ls)) ELSE ls
RECURSIVE RStripLines(_)
RStripLines(ls) ==
    IF ls # <<>> /\ StripLine(ls[Len(ls)]) = <<>>
    THEN RStripLines(SubSeq(ls, 1, Len(ls) - 1)) ELSE ls
StripParagraph(ls) == RStripLines(LStripLines(ls))

\* [p.strip() for p in lyrics.split('\n\n') if p.strip()]
Paragraphs(text) ==
    LET parts == SplitParagraphs(text, <<>>)
        stripped == Eager([i \in 1..Len(parts) |-> StripParagraph(parts[i])])
    IN  SelectSeq(stripped, LAMBDA p : p # <<>>)

\* md5(p.lower().encode()).hexdigest()[:8]: equal exactly for equal lowered
\* paragraphs (a digest collision is not modelled)
ParaHash(p) == LowerText(p)

\* the number of distinct values of a sequence that occur more than k times
RepeatedValues(s, k) ==
    Cardinality({v \in {s[i] : i \in 1..Len(s)} :
                    Cardinality({i \in 1..Len(s) : s[i] = v}) > k})

\* lyrics.lower().split()
RECURSIVE Flatten(_)
Flatten(ss) == IF ss = <<>> THEN <<>> ELSE Head(ss) \o Flatten(Tail(ss))
SplitWords(text) == Flatten([i \in 1..Len(text) |-> StripLine(LowerLine(text[i]))])

\* _calculate_repetition_score
RepetitionScore(text) ==
    LET LineScore(lines) ==
            IF Len(lines) < 4 THEN 0
            ELSE Min(1000, (RepeatedValues(lines, 1) * 4 * 1000) \div Len(lines))
        ChorusRatio(paragraphs, para_hashes) ==
            (RepeatedValues(para_hashes, 1) * 1000) \div Len(paragraphs)
        Phrases(words) ==
            Eager([i \in 1..Max(0, Len(words) - 2) |-> SubSeq(words, i, i + 2)])
        PhraseScore(phrases) == Min(1000, (RepeatedValues(phrases, 2) * 1000) \div 20)
        Score(paragraphs) ==
            IF Len(paragraphs) < 2
            THEN LineScore(NonEmptyLines(LowerText(text)))
            ELSE (ChorusRatio(paragraphs,
                              Eager([i \in 1..Len(paragraphs) |-> ParaHash(paragraphs[i])])) * 6
                  + PhraseScore(Phrases(SplitWords(text))) * 4) \div 10
    IN  Score(Paragraphs(text))

CATCHY_VOWELS ==
    {"a","e","i","o","u","y","a!","a^","a:","e'","e!","e^","e:","i:","i^",
     "o^","u!","u^","u:"}
CLUSTER_CONSONANTS ==
    {"b","c","d","f","g","h","j","k","l","m","n","p","q","r","s","t","v","w","x","z"}

\* len(re.findall(r'[bcdfghjklmnpqrstvwxz]{3,}', chars)): the maximal runs of
\* consonants that are three or more long
ComplexClusters(chars) ==
    LET n == Len(chars)
        IsCons(i) == chars[i] \in CLUSTER_CONSONANTS
    IN  Cardinality({i \in 1..(n - 2) :
            /\ IsCons(i) /\ IsCons(i + 1) /\ IsCons(i + 2)
            /\ (i = 1 \/ ~IsCons(i - 1))})

\* _calculate_phonetic_catchiness
PhoneticCatchiness(text, lines) ==
    LET VowelPairs(vowel_sequence) ==
            Eager([i \in 1..(Len(vowel_sequence) - 1) |-> SubSeq(vowel_sequence, i, i + 1)])
        Harmony(vowel_sequence) ==
            IF Len(vowel_sequence) >= 2
            THEN Min(1000, (RepeatedValues(VowelPairs(vowel_sequence), 2) * 1000) \div 10)
            ELSE 500
        Catchiness(chars, words) ==
            LET n == Len(words)
                avg_length == (SumSeq([i \in 1..n |-> Len(words[i])]) * 1000) \div n
                length_score == Max(0, 1000 - ((avg_length - 4000) \div 6))
                open_syllables ==
                    Cardinality({i \in 1..n : words[i][Len(words[i])] \in CATCHY_VOWELS})
                open_ratio == (open_syllables * 1000) \div n
                cluster_penalty == Min(1000, (ComplexClusters(chars) * 10 * 1000) \div n)
                cluster_score == 1000 - cluster_penalty
                harmony_score == Harmony(SelectSeq(chars, LAMBDA c : c \in CATCHY_VOWELS))
            IN  IF n = 0 THEN 0
                ELSE (length_score * 3 + open_ratio * 3 + cluster_score * 2
                      + harmony_score * 2) \div 10
        OfChars(chars) == Catchiness(chars, LetterRuns(chars))
    IN  OfChars(Lower(TextChars(text)))

\* the four tiers of the rhythm regularity of one paragraph
RegularityTier(cv) ==
    IF cv < 150 THEN 1000 ELSE IF cv < 300 THEN 700 ELSE IF cv < 500 THEN 400 ELSE 200

\* _calculate_rhythm_regularity
RhythmRegularity(text) ==
    LET Regularity(syl) ==
            LET Scored == {i \in 1..Len(syl) : Len(syl[i]) >= 2 /\ SumSeq(syl[i]) # 0}
                regularity_scores ==
                    [i \in 1..Len(syl) |->
                        IF i \in Scored THEN RegularityTier(CoeffVar(syl[i])) ELSE 0]
            IN  IF syl = <<>> \/ Scored = {} THEN 500
                ELSE SumSeq(regularity_scores) \div Cardinality(Scored)
        OfParagraphs(paragraphs) ==
            Regularity(Eager([i \in 1..Len(paragraphs) |-> SyllablesPerLine(paragraphs[i])]))
    IN  OfParagraphs(Paragraphs(text))

\* len(line.split())
WordCount(line) == Len(StripLine(line))

\* the paragraphs _calculate_brevity_score takes for hooks: the first of every
\* repeated paragraph, else the three shortest (sorted is stable)
HookParagraphs(paragraphs) ==
    LET n == Len(paragraphs)
        Count(i) == Cardinality({j \in 1..n : ParaHash(paragraphs[j]) = ParaHash(paragraphs[i])})
        First(i) == \A j \in 1..(i - 1) : ParaHash(paragraphs[j]) # ParaHash(paragraphs[i])
        Repeated == {i \in 1..n : Count(i) > 1 /\ First(i)}
        Length(i) == Len(TextChars(paragraphs[i]))
        Rank(i) == Cardinality({j \in 1..n :
                       Length(j) < Length(i) \/ (Length(j) = Length(i) /\ j < i)})
    IN  IF Repeated # {} THEN Repeated ELSE {i \in 1..n : Rank(i) < 3}

\* the four zones of the brevity score for an average of total / count words
BrevityZone(total, count) ==
    IF total < 4 * count THEN 700
    ELSE IF total <= 8 * count THEN 1000
    ELSE IF total <= 12 * count THEN 700
    ELSE Max(300, 1000 - ((((total * 1000) \div count) - 12000) \div 20))

\* _calculate_brevity_score
BrevityScore(text) ==
    LET OfLines(lines) ==
            IF lines = <<>> THEN 500
            ELSE BrevityZone(SumSeq([i \in 1..Len(lines) |-> WordCount(lines[i])]),
                             Len(lines))
        OfHookWords(hook_words) ==
            IF hook_words = <<>> THEN BrevityZone(10, 1)
            ELSE BrevityZone(SumSeq(hook_words), Len(hook_words))
        Counts(paragraphs, Hooks) ==
            [i \in 1..Len(paragraphs) |->
                IF i \in Hooks
                THEN [j \in 1..Len(paragraphs[i]) |-> WordCount(paragraphs[i][j])]
                ELSE <<>>]
        OfParagraphs(paragraphs) ==
            IF Len(paragraphs) < 2
            THEN OfLines(NonEmptyLines(text))
            ELSE OfHookWords(Flatten(Counts(paragraphs, HookParagraphs(paragraphs))))
    IN  OfParagraphs(Paragraphs(text))

\* calculate_hook_score
CalculateHookScore(text) ==
    IF IsBlankText(text) THEN 0
    ELSE
    LET Score(lines) ==
            IF Len(lines) < MIN_LINES THEN 0
            ELSE Min(100, Max(0, Round(
                     RepetitionScore(text) * HOOK_WEIGHTS.repetition
                   + PhoneticCatchiness(text, lines) * HOOK_WEIGHTS.catchiness
                   + RhythmRegularity(text) * HOOK_WEIGHTS.rhythm
                   + BrevityScore(text) * HOOK_WEIGHTS.brevity)))
    IN  Score(NonEmptyLines(text))

\* calculate_hook_metrics
CalculateHookMetrics(text) ==
    LET ChorusDetected(paragraphs) ==
            RepeatedValues(Eager([i \in 1..Len(paragraphs) |-> ParaHash(paragraphs[i])]), 1) > 0
        Metrics(lines) ==
            IF Len(lines) < MIN_LINES
            THEN [hook_score |-> 0, repetition |-> 0, catchiness |-> 0,
                  rhythm_regularity |-> 0, brevity |-> 0, chorus_detected |-> FALSE]
            ELSE [hook_score |-> CalculateHookScore(text),
                  repetition |-> RepetitionScore(text),
                  catchiness |-> PhoneticCatchiness(text, lines),
                  rhythm_regularity |-> RhythmRegularity(text),
                  brevity |-> BrevityScore(text),
                  chorus_detected |-> ChorusDetected(Paragraphs(text))]
    IN  Metrics(NonEmptyLines(text))

-----------------------------------------------------------------------------
(* Regular expressions over tokens                                         *)
(*                                                                         *)
(* The patterns of the Punchline analyzer are built from whole words       *)
(* (\b...\b alternatives), \s+, \w+ and .* ; on a text whose tokens are    *)
(* runs of word characters or the lone "?" they match token by token.      *)
(* A pattern is a sequence of elements                                     *)
(*   [k, s, sep, opt]:  k = "in"    a token of the set s                   *)
(*                      k = "any"   \w+, any word token                    *)
(*                      k = "num"   \d+                                    *)
(*                      k = "start" a token that starts with s and a word  *)
(*                                  character                              *)
(*                      k = "sub"   a token holding one of the character   *)
(*                                  sequences of s                         *)
(*     sep = "ws"  after \s+ (the next token, on any line)                 *)
(*           "sp"  after one blank (the next token, on the same line)      *)
(*           "gap" after .* (a later token of the same line)               *)
(*     opt = TRUE  for an optional element, (?:...\s+)?                    *)
(* and a regular expression is a record [alts, lazy]: the alternatives in  *)
(* the order the engine tries them, lazy for .*? (the shortest match).     *)

DIGITS == {"0","1","2","3","4","5","6","7","8","9"}
WORD_CHARS == LETTERS \cup DIGITS \cup {"c,", "_"}

In(S)      == [k |-> "in",    s |-> S,  sep |-> "ws",  opt |-> FALSE]
InSp(S)    == [k |-> "in",    s |-> S,  sep |-> "sp",  opt |-> FALSE]
InGap(S)   == [k |-> "in",    s |-> S,  sep |-> "gap", opt |-> FALSE]
Opt(S)     == [k |-> "in",    s |-> S,  sep |-> "ws",  opt |-> TRUE]
OptSp(S)   == [k |-> "in",    s |-> S,  sep |-> "sp",  opt |-> TRUE]
AnyWord    == [k |-> "any",   s |-> {}, sep |-> "ws",  opt |-> FALSE]
Number     == [k |-> "num",   s |-> {}, sep |-> "ws",  opt |-> FALSE]
Starts(c)  == [k |-> "start", s |-> c,  sep |-> "ws",  opt |-> FALSE]
SubGap(S)  == [k |-> "sub",   s |-> S,  sep |-> "gap", opt |-> FALSE]
Regex(alts) == [alts |-> alts, lazy |-> FALSE]
Lazy(alts)  == [alts |-> alts, lazy |-> TRUE]
\* a regular expression that is one alternation of words
Words(S) == Regex(<< <<In(S)>> >>)

\* the tokens of a text with the line each stands on
TokenStream(text) ==
    LET Tokens(line, i) == [j \in 1..Len(line) |-> [tok |-> line[j], line |-> i]]
    IN  Flatten([i \in 1..Len(text) |-> Tokens(StripLine(LowerLine(text[i])), i)])

\* does chars hold the sequence sub
Contains(chars, sub) ==
    \E i \in 1..(Len(chars) - Len(sub) + 1) : SubSeq(chars, i, i + Len(sub) - 1) = sub

\* does a token satisfy the element
Satisfies(tok, e) ==
    LET Has(chars) ==
            CASE e.k = "in"    -> tok \in e.s
              [] e.k = "any"   -> chars[1] \in WORD_CHARS
              [] e.k = "num"   -> \A i \in 1..Len(chars) : chars[i] \in DIGITS
              [] e.k = "start" -> /\ Len(chars) > Len(e.s)
                                  /\ SubSeq(chars, 1, Len(e.s)) = e.s
                                  /\ chars[Len(e.s) + 1] \in WORD_CHARS
              [] e.k = "sub"   -> \E sub \in e.s : Contains(chars, sub)
    IN  Has(Spell(tok))

\* the positions at which a match of elems[idx..] can end when its next
\* token is looked for from pos on; prev is the last matched position (0: none)
RECURSIVE MatchEnds(_, _, _, _, _)
MatchEnds(stream, elems, idx, pos, prev) ==
    IF idx > Len(elems) THEN {prev}
    ELSE
    LET n == Len(stream)
        SameLine(q) == prev = 0 \/ stream[q].line = stream[prev].line
        Candidates(e) ==
            IF e.sep = "gap" /\ prev # 0
            THEN {q \in pos..n : SameLine(q)}
            ELSE {q \in {pos} : q <= n /\ (e.sep = "sp" => SameLine(q))}
        Taken(e) == UNION {MatchEnds(stream, elems, idx + 1, q + 1, q) :
                             q \in {c \in Candidates(e) : Satisfies(stream[c].tok, e)}}
        Ends(e) == IF e.opt THEN Taken(e) \cup MatchEnds(stream, elems, idx + 1, pos, prev)
                   ELSE Taken(e)
    IN  Ends(elems[idx])

SetMax(S) == CHOOSE x \in S : \A y \in S : y <= x
SetMin(S) == CHOOSE x \in S : \A y \in S : x <= y

\* the end of the match of the regular expression that starts at pos (0: none)
RECURSIVE MatchAlt(_, _, _, _)
MatchAlt(stream, re, a, pos) ==
    IF a > Len(re.alts) THEN 0
    ELSE LET Pick(Ends) ==
                 IF Ends # {} THEN (IF re.lazy THEN SetMin(Ends) ELSE SetMax(Ends))
                 ELSE MatchAlt(stream, re, a + 1, pos)
         IN  Pick(MatchEnds(stream, re.alts[a], 1, pos, 0) \ {0})
MatchAt(stream, re, pos) == MatchAlt(stream, re, 1, pos)

\* len(re.findall(re, text)): the matches, leftmost first, none overlapping
RECURSIVE CountFrom(_, _, _)
CountFrom(stream, re, pos) ==
    LET Count(Ends) ==
            IF Ends = {} THEN 0 ELSE 1 + CountFrom(stream, re, SetMin(Ends) + 1)
        \* the end of the leftmost match from pos on, if there is one
        Leftmost(Hits) ==
            IF Hits = {} THEN {} ELSE {MatchAt(stream, re, SetMin(Hits))}
    IN  Count(Leftmost({q \in pos..Len(stream) : MatchAt(stream, re, q) # 0}))
FindAll(stream, re) == CountFrom(stream, re, 1)

\* re.search(re, text)
Search(stream, re) == \E q \in 1..Len(stream) : MatchAt(stream, re, q) # 0

\* the sum of the matches of a list of regular expressions
RECURSIVE FindAllSum(_, _)
FindAllSum(stream, res) ==
    IF res = <<>> THEN 0 ELSE FindAll(stream, Head(res)) + FindAllSum(stream, Tail(res))

\* how many regular expressions of a list are found
SearchCount(stream, res) == Cardinality({i \in 1..Len(res) : Search(stream, res[i])})

-----------------------------------------------------------------------------
(* analyzers/punchlines.py: rhetorical devices                             *)

COMME_PATTERNS == <<
    Regex(<< <<In({"comme"}), In({"un","une","le","la","des","les"}), AnyWord>> >>),
    Regex(<< <<In({"comme"}), In({"si"})>> >>),
    Regex(<< <<In({"tel","tels","telle","telles"}), In({"un","une","le","la"}), AnyWord>> >>)
>>

CONDITIONAL_PATTERNS == <<
    Lazy(<< <<In({"si"}), In({"tu","on","je","il","elle","ils","elles","vous","nous"}),
              AnyWord, SubGap({<<",">>})>> >>),
    Regex(<< <<In({"si"}), Starts(<<"j","'">>)>>,
             <<In({"si"}), Starts(<<"t","'">>)>>,
             <<In({"si"}), In({"on","il","elle"}), AnyWord>> >>),
    Regex(<< <<In({"faut"}), Opt({"pas"}), In({"que"}), In({"tu","je","on"})>> >>),
    Words({"sinon","autrement"})
>>

\* the three question patterns that weigh 1.2
QUESTION_PATTERNS == <<
    Regex(<< <<In({"qui","quoi","comment","pourquoi","ou!","quand"}), AnyWord,
               SubGap({<<"?">>})>> >>),
    Regex(<< <<In({"c'est"}), In({"quoi"})>> >>),
    Regex(<< <<In({"t'crois","t'penses","t'veux"}), In({"quoi"})>>,
             <<In({"tu"}), In({"crois","penses","veux"}), In({"quoi"})>> >>)
>>

NUMBER_PATTERNS == <<
    Regex(<< <<Number, In({"fois","jour","jours","an","ans","heure","heures",
                           "balle","balles","gramme","grammes"})>> >>),
    Regex(<< <<In({"cent","mille","million"}), AnyWord>> >>),
    Words({"premier","deuxie!me","dernier"})
>>

\* len(re.findall(r"\?", text)): the question marks of the text
QuestionMarks(stream) ==
    SumSeq([i \in 1..Len(stream) |->
        Cardinality({j \in 1..Len(Spell(stream[i].tok)) : Spell(stream[i].tok)[j] = "?"})])

\* _calculate_rhetorical_devices; the score is summed in tenths
RhetoricalDevices(text, lines) ==
    LET Questions(stream) ==
            12 * FindAllSum(stream, QUESTION_PATTERNS) + 3 * QuestionMarks(stream)
        Score(stream) ==
              8 * FindAllSum(stream, COMME_PATTERNS)
            + 10 * FindAllSum(stream, CONDITIONAL_PATTERNS)
            + Min(Questions(stream), Len(lines) * 5)
            + 6 * FindAllSum(stream, NUMBER_PATTERNS)
    IN  IF lines = <<>> THEN 0
        ELSE Min(1000, (Score(TokenStream(text)) * 10000) \div (Len(lines) * 12))

-----------------------------------------------------------------------------
(* analyzers/punchlines.py: wordplay                                       *)

HOMOPHONES == <<
    {"mer", "me!re", "maire"},
    {"vers", "vert", "verre", "ver"},
    {"sain", "sein", "saint", "ceint"},
    {"sang", "sans", "cent", "sent"},
    {"temps", "tant", "tend", "t'en"},
    {"voix", "voie", "vois", "voit"},
    {"foi", "fois", "foie"},
    {"air", "aire", "e!re", "he!re", "erre"},
    {"ancre", "encre"},
    {"chai^ne", "che^ne"},
    {"champ", "chant"},
    {"cou", "coup", "cou^t"},
    {"faim", "fin", "feint"},
    {"poids", "pois"},
    {"port", "porc", "pore"},
    {"saut", "sceau", "seau", "sot"},
    {"vingt", "vin", "vain"},
    {"compte", "conte", "comte"},
    {"court", "cour", "cours"},
    {"pain", "pin", "peint"},
    {"pot", "peau"},
    {"mot", "maux"},
    {"toi", "toit"},
    {"sou", "sous", "sou^l"},
    {"pe!re", "pair", "paire", "perd"},
    {"mur", "mu^r"},
    {"bal", "balle"},
    {"date", "datte"},
    {"point", "poing"},
    {"sale", "salle"}
>>

POLYSEMY_INDICATORS == <<
    Regex(<< <<In({"dans"}), InSp({"tous"}), InSp({"les"}), InSp({"sens"})>> >>),
    Regex(<< <<In({"au"}), InSp({"propre"}), InSp({"comme"}), InSp({"au"}), InSp({"figure'"})>> >>),
    Regex(<< <<In({"au"}), InSp({"sens"}), InSp({"propre"})>> >>),
    Regex(<< <<In({"au"}), InSp({"premier"}), InSp({"degre'"})>> >>),
    Regex(<< <<In({"au"}), InSp({"second"}), InSp({"degre'"})>> >>),
    Regex(<< <<In({"double"}), InSp({"sens"})>> >>),
    Regex(<< <<In({"si"}), InSp({"tu"}), InSp({"vois"}), InSp({"ce"}), InSp({"que"})>> >>),
    Regex(<< <<In({"tu"}), InSp({"vois","captes","comprends"}), In({"le"})>>,
             <<In({"tu"}), InSp({"vois","captes","comprends"}), In({"ce"}), InSp({"que"})>> >>),
    Regex(<< <<In({"c'est","y'a"}), Opt({"un"}), In({"jeu"}), InSp({"de"}), InSp({"mot"})>> >>)
>>

\* \b([bcdfghjklmnpqrstvwxz])\w+\s+\1\w+\s+\1\w+ : one alternative a consonant
CONSONANT_SEQ ==
    <<"b","c","d","f","g","h","j","k","l","m","n","p","q","r","s","t","v","w","x","z">>
ALLITERATION ==
    Regex([i \in 1..Len(CONSONANT_SEQ) |->
        <<Starts(<<CONSONANT_SEQ[i]>>), Starts(<<CONSONANT_SEQ[i]>>),
          Starts(<<CONSONANT_SEQ[i]>>)>>])

\* the words of a homophone group found in the text, each as word or word + s
HomophonesFound(stream, group) ==
    Cardinality({w \in group :
        \E i \in 1..Len(stream) : stream[i].tok = w \/ stream[i].tok = w \o "s"})

\* len(re.findall(r'\b\w+-\w+\b', token)): the hyphenated pairs of a token
HyphenPairs(tok) ==
    LET Hyphens(chars) == {i \in 2..(Len(chars) - 1) :
                              /\ chars[i] = "-"
                              /\ chars[i - 1] \in WORD_CHARS
                              /\ chars[i + 1] \in WORD_CHARS}
    IN  (Cardinality(Hyphens(Spell(tok))) + 1) \div 2

\* len(re.findall(r"l['](?:a|e|e-acute)\w+", token)): the elisions of a token
Elisions(tok) ==
    LET Found(chars) ==
            Cardinality({i \in 1..(Len(chars) - 3) :
                /\ chars[i] = "l"
                /\ chars[i + 1] \in {"'", "''"}
                /\ chars[i + 2] \in {"a", "e", "e'"}
                /\ chars[i + 3] \in WORD_CHARS})
    IN  Found(Spell(tok))

\* _calculate_wordplay_v2; the score is summed in tenths
WordplayV2(text, lines) ==
    LET Homophones(found) == IF found >= 2 THEN found * 15 ELSE 0
        Score(stream) ==
              SumSeq([g \in 1..Len(HOMOPHONES) |->
                         Homophones(HomophonesFound(stream, HOMOPHONES[g]))])
            + 40 * SearchCount(stream, POLYSEMY_INDICATORS)
            + 10 * FindAll(stream, ALLITERATION)
            + 2 * SumSeq([i \in 1..Len(stream) |->
                             HyphenPairs(stream[i].tok) + Elisions(stream[i].tok)])
    IN  IF lines = <<>> THEN 0
        ELSE Min(1000, (Score(TokenStream(text)) * 10000) \div (Len(lines) * 8))

-----------------------------------------------------------------------------
(* analyzers/punchlines.py: paradox and philosophy                         *)

ANTITHESIS_PAIRS == <<
    << {"vie","vivre","vivant"},        {"mort","mourir","crever","de'ce!s"} >>,
    << {"amour","aimer","aime"},        {"haine","hai:r","de'tester"} >>,
    << {"riche","richesse","thune"},    {"pauvre","mise!re","hess","gale!re"} >>,
    << {"ange","ange'lique"},           {"de'mon","diable","satan"} >>,
    << {"ciel","paradis"},              {"enfer","terre","sol"} >>,
    << {"lumie!re","jour","soleil"},    {"ombre","nuit","noir","obscurite'"} >>,
    << {"ve'rite'","vrai"},             {"mensonge","mentir","faux"} >>,
    << {"ami","fre!re","pote"},         {"ennemi","trai^tre","serpent"} >>,
    << {"de'but","commence"},           {"fin","termine","finit"} >>,
    << {"monter","haut","sommet"},      {"tomber","bas","fond"} >>,
    << {"espoir","re^ve"},              {"de'sespoir","cauchemar"} >>,
    << {"innocent","pur"},              {"coupable","sale","souille'"} >>,
    << {"silence","muet"},              {"bruit","crier","gueuler"} >>,
    << {"chaud","bru^le"},              {"froid","glace","geler"} >>
>>

LIVING_VERBS == {"nai^t","meurt","vit"}
APHORISM_PATTERNS == <<
    Regex(<< <<In({"la"}), InSp({"vie"}), In({"c'est","est","n'est"})>> >>),
    Regex(<< <<In({"le"}), InSp({"monde"}), In({"c'est","est"})>> >>),
    Regex(<< <<In({"l'amour"}), In({"c'est","est","n'est"})>> >>),
    Regex(<< <<In({"la"}), InSp({"mort"}), In({"c'est","est"})>> >>),
    Regex(<< <<In({"le"}), InSp({"rap"}), In({"c'est","est"})>> >>),
    Regex(<< <<In({"la"}), InSp({"rue"}), In({"c'est","est","m'a"})>> >>),
    Regex(<< <<In({"rien"}), InSp({"ne"}), InSp({"sert"}), InSp({"de"})>> >>),
    Regex(<< <<In({"mieux"}), InSp({"vaut"})>> >>),
    Regex(<< <<In({"qui"}), InSp({"veut"}), AnyWord, In({"doit"})>> >>),
    Regex(<< <<In({"on"}), OptSp({"ne"}), In(LIVING_VERBS),
               InGap({"on"}), OptSp({"ne"}), In(LIVING_VERBS)>> >>)
>>

DARK_WORDS == {<<"m","o","r","t">>, <<"s","e","u","l">>, <<"n","o","i","r">>,
               <<"s","o","m","b","r","e">>}
DARK_BOAST_PATTERNS == <<
    Regex(<< <<In({"j'ai"}), In({"grandi","ve'cu"}), SubGap(DARK_WORDS)>> >>),
    Regex(<< <<In({"j'suis"}), In({"tellement","si"}), AnyWord, In({"que"})>>,
             <<In({"je"}), In({"suis"}), In({"tellement","si"}), AnyWord, In({"que"})>> >>),
    Regex(<< <<In({"soit"}), In({"je","on"}), AnyWord, In({"soit"}), In({"je","on"})>> >>),
    Regex(<< <<In({"j'pre'fe!re","j'veux"}), In({"mourir","crever"})>> >>)
>>

OXYMORON_PATTERNS == <<
    Regex(<< <<In({"silence","muet"}), In({"assourdissant","bruyant"})>> >>),
    Regex(<< <<In({"mort","mourir"}), In({"vivant"})>>,
             <<In({"mort","mourir"}), In({"de"}), InSp({"vivre"})>> >>),
    Regex(<< <<In({"feu","bru^le"}), In({"froid","glace'"})>> >>),
    Regex(<< <<In({"glace"}), In({"bru^le","chaud"})>> >>),
    Regex(<< <<In({"obscure"}), In({"clarte'"})>> >>),
    Regex(<< <<In({"nostalgique"}), In({"du"}), In({"futur"})>> >>)
>>

\* re.search(pattern, line_lower) for an alternation of words
LineHas(line_lower, S) == \E i \in 1..Len(line_lower) : line_lower[i] \in S

\* the antithesis points of one pair, in tenths
AntithesisScore(lines, pair) ==
    LET Points(i, has_first, has_second) ==
              (IF has_first /\ has_second THEN 25 ELSE 0)
            + (IF i + 1 <= Len(lines) /\ has_first /\ LineHas(lines[i + 1], pair[2])
               THEN 15 ELSE 0)
            + (IF i + 1 <= Len(lines) /\ has_second /\ LineHas(lines[i + 1], pair[1])
               THEN 15 ELSE 0)
    IN  SumSeq([i \in 1..Len(lines) |->
                   Points(i, LineHas(lines[i], pair[1]), LineHas(lines[i], pair[2]))])

\* _calculate_paradox_philosophy; the score is summed in tenths
ParadoxPhilosophy(text, lines) ==
    LET Antitheses(lines_lower) ==
            SumSeq([p \in 1..Len(ANTITHESIS_PAIRS) |->
                       AntithesisScore(lines_lower, ANTITHESIS_PAIRS[p])])
        Score(stream) ==
              Antitheses(LowerText(lines))
            + 20 * FindAllSum(stream, APHORISM_PATTERNS)
            + 20 * FindAllSum(stream, DARK_BOAST_PATTERNS)
            + 30 * SearchCount(stream, OXYMORON_PATTERNS)
    IN  IF lines = <<>> THEN 0
        ELSE Min(1000, (Score(TokenStream(text)) * 10000) \div (Len(lines) * 5))

-----------------------------------------------------------------------------
(* analyzers/punchlines.py: cultural references and the brand penalty      *)

SPORT_WORDS == {<<"a","r","r","e^","t">>, <<"b","u","t">>, <<"m","a","t","c","h">>}
CULTURAL_REFS == <<
    Regex(<< <<In({"comme","tel"}), Opt({"un"}),
               In({"ce'sar","napoleon","spartacus","alexandre"})>> >>),
    Regex(<< <<In({"comme","tel"}), Opt({"un"}),
               In({"hercule","ulysse","achille","zeus"})>> >>),
    Words({"hamlet","macbeth","faust","cyrano","monte-cristo","quichotte"}),
    Words({"molie!re","hugo","voltaire","rimbaud","baudelaire","ce'line"}),
    Regex(<< <<In({"comme","tel"}), Opt({"un"}), In({"scarface","parrain","soprano"})>> >>),
    Regex(<< <<In({"malcolm"})>>, <<In({"luther"}), In({"king"})>>, <<In({"mandela"})>>,
             <<In({"rosa"}), In({"parks"})>>, <<In({"che"})>> >>),
    Regex(<< <<In({"zidane","mbappe'","platini"}), SubGap(SPORT_WORDS)>> >>)
>>

BRAND_PATTERNS == <<
    Regex(<< <<In({"gucci"})>>, <<In({"louisvuitton"})>>, <<In({"louis"}), In({"vuitton"})>>,
             <<In({"prada"})>>, <<In({"herme!s"})>>, <<In({"dior"})>>, <<In({"chanel"})>>,
             <<In({"balenciaga"})>> >>),
    Regex(<< <<In({"rolex"})>>, <<In({"cartier"})>>, <<In({"audemars"})>>, <<In({"patek"})>>,
             <<In({"richard"}), In({"mille"})>> >>),
    Words({"ferrari","lamborghini","porsche","bentley","maybach"}),
    Words({"louboutin","yeezy","jordan","supreme"})
>>

\* exact fractions <<numerator, denominator>>, denominator positive
FracLeq(a, b) == a[1] * b[2] <= b[1] * a[2]
FracMin(a, b) == IF FracLeq(a, b) THEN a ELSE b
FracMax(a, b) == IF FracLeq(a, b) THEN b ELSE a
FracMilli(a)  == (a[1] * 1000) \div a[2]

\* brand_count
BrandCount(text) == FindAllSum(TokenStream(text), BRAND_PATTERNS)

\* len(lyrics.split())
TextWordCount(text) == Len(SplitWords(text))

\* brand_penalty = min(0.4, brand_ratio * 15), as a fraction
BrandPenalty(brand_count, word_count) ==
    FracMin(<<2, 5>>, <<brand_count * 15, word_count>>)

\* the penalty added to the score instead of taken from it
ApplyBrandPenalty_Added(score, penalty, n) ==
    FracMax(<<0, 1>>, <<score * penalty[2] + penalty[1] * n, penalty[2]>>)

\* score = max(0, score - brand_penalty * len(lines)), as a fraction
ApplyBrandPenalty(score, penalty, n) ==
    FracMax(<<0, 1>>, <<score * penalty[2] - penalty[1] * n, penalty[2]>>)

\* _calculate_cultural_hijacking, as a fraction
CulturalHijacking(text, lines) ==
    LET n == Len(lines)
        Penalised(refs, word_count) ==
            IF word_count > 0
            THEN ApplyBrandPenalty(refs, BrandPenalty(BrandCount(text), word_count), n)
            ELSE <<refs, 1>>
        PerLine(score) == IF n > 0 THEN <<score[1], score[2] * n>> ELSE <<0, 1>>
        Normalised(per_line) ==
            FracMin(<<1, 1>>, FracMax(<<0, 1>>, <<per_line[1] * 50, per_line[2]>>))
    IN  Normalised(PerLine(Penalised(2 * FindAllSum(TokenStream(text), CULTURAL_REFS),
                                     TextWordCount(text))))

-----------------------------------------------------------------------------
(* nlp/slang_normalizer.py                                                 *)

\* the keys of ALL_SLANG = {**VERLAN_DICT, **ARABIC_SLANG}
ALL_SLANG_KEYS == {
    "meuf", "keuf", "teuf", "chelou", "ouf", "cimer", "zarbi", "relou",
    "beur", "rebeu", "trom", "reum", "reup", "reuf", "reus", "teci", "tess",
    "zyva", "ziva", "vazy", "pe'cho", "chanme'", "vene!re", "cainri",
    "be'dav", "feuj", "renoi", "reblan", "cefran", "ce'fran", "keum",
    "ie!pe", "iepe", "tie!pe", "tie'pe", "zebi", "zeb", "zen", "zetla",
    "zeter", "zomblou", "zonmai", "zicmu", "meufeu", "feumeu", "beubar",
    "thune", "oseille", "biff", "ble", "ble'", "fric", "pognon", "moula",
    "moulaga", "liasse", "wari", "srab", "gadji", "go", "gova", "binks",
    "chancle'", "daronne", "daron", "deter", "gow", "hess", "lass",
    "narvalo", "paro", "pera", "rageux", "seum", "shlag", "teh", "tieks",
    "tise", "wesh", "zbeul", "zouz", "bendo", "block", "bail", "bails",
    "bicrave", "caillasse", "charger", "crari", "dalle", "dead", "dinguerie",
    "equipe", "igo", "kiffer", "lover", "peufra", "pistave", "poucave",
    "ratpi", "sah", "sce-la", "shifter", "s'ter", "tarba", "tchip",
    "ter-shi", "valide'", "wallah", "starfoullah", "hamdoulah", "inshallah",
    "mashallah", "haram", "halal", "khouya", "khoya", "akhi", "sahbi",
    "chouf", "hchouma", "la", "ouais", "miskine", "meskin", "kif", "bled",
    "bleda", "bezef", "zhar", "nif", "baraka", "zerma"
}

\* the characters w.strip(",.!?;:'\"()[]") removes at both ends
SLANG_STRIP == {",", ".", "!", "?", ";", ":", "'", "\"", "(", ")", "[", "]"}

\* get_slang_density; a token of the model is a word or is all punctuation
GetSlangDensity(text) ==
    LET Density(words) ==
            IF words = <<>> THEN 0
            ELSE (Cardinality({i \in 1..Len(words) : words[i] \in ALL_SLANG_KEYS}) * 1000)
                 \div Len(words)
    IN  Density(SplitWords(text))

-----------------------------------------------------------------------------
(* analyzers/punchlines.py: the score                                      *)

FALL_CONNECTORS ==
    Regex(<< <<In({"mais"})>>, <<In({"pourtant"})>>, <<In({"me^me"}), In({"si"})>>,
             <<In({"alors"}), In({"que"})>>, <<In({"cependant"})>>, <<In({"or"})>>,
             <<In({"sauf"}), In({"que"})>> >>)

PERSONAL_VERBS ==
    {"suis","ai","e'tais","avais","fais","veux","peux","dois","mets","vis","reste"}
PERSONAL_REFS ==
    Words({"j" \o q \o v : q \in {"", "'", "''"}, v \in PERSONAL_VERBS}
          \cup {"mon", "ma", "mes", "moi"})

\* the brevity bonus for an average of total / count words a line
BrevityBonus(total, count) ==
    IF count = 0 THEN 0
    ELSE IF 8 * count <= total /\ total <= 15 * count THEN 5
    ELSE IF 6 * count <= total /\ total <= 20 * count THEN 3
    ELSE 0

\* the combo bonus for the number of active patterns
ComboBonus(patterns_active) ==
    IF patterns_active >= 5 THEN 7
    ELSE IF patterns_active >= 4 THEN 5
    ELSE IF patterns_active >= 3 THEN 3
    ELSE 0

\* the score before the final clamp, in units of 1/1000
PunchlineRawScore(text, lines) ==
    LET n == Len(lines)
        PatternsActive(rhetorical, wordplay, paradox, references, connectors, personal) ==
              (IF rhetorical > 300 THEN 1 ELSE 0)
            + (IF wordplay > 300 THEN 1 ELSE 0)
            + (IF paradox > 300 THEN 1 ELSE 0)
            + (IF references > 200 THEN 1 ELSE 0)
            + (IF connectors * 10 > n THEN 1 ELSE 0)
            + (IF personal * 5 > n THEN 1 ELSE 0)
        Score(rhetorical, wordplay, paradox, references, connectors, personal) ==
              rhetorical * 35 + paradox * 25 + wordplay * 25 + references * 15
            + Min(8000, (connectors * 40000) \div n)
            + Min(5000, (personal * 10000) \div n)
            + 1000 * BrevityBonus(SumSeq([i \in 1..n |-> WordCount(lines[i])]), n)
            + 1000 * ComboBonus(PatternsActive(rhetorical, wordplay, paradox, references,
                                               connectors, personal))
        Bonuses(stream) ==
            Score(RhetoricalDevices(text, lines),
                  WordplayV2(text, lines),
                  ParadoxPhilosophy(text, lines),
                  FracMilli(CulturalHijacking(text, lines)),
                  FindAll(stream, FALL_CONNECTORS),
                  FindAll(stream, PERSONAL_REFS))
    IN  Bonuses(TokenStream(text))

\* the final clamp without its upper bound
ClampScore_NoCeiling(score) == Max(0, Round(score))

\* the final clamp of a score in units of 1/1000: min(100, max(0, round(score)))
ClampScore(score) == Min(100, Max(0, Round(score)))

\* calculate_punchline_score
CalculatePunchlineScore(text) ==
    IF IsBlankText(text) THEN 0
    ELSE
    LET Score(lines) ==
            IF Len(lines) < MIN_LINES THEN 0
            ELSE ClampScore(PunchlineRawScore(text, lines))
    IN  Score(NonEmptyLines(text))

\* calculate_punchline_metrics with the guard on the lines of the text, empty
\* ones included
CalculatePunchlineMetrics_AllLines(text) ==
    LET Metrics(lines) ==
            IF Len(text) < MIN_LINES
            THEN [punchline_score |-> 0, rhetorical_devices |-> 0, wordplay |-> 0,
                  paradox_philosophy |-> 0, cultural_refs |-> 0, slang_density |-> 0]
            ELSE [punchline_score |-> CalculatePunchlineScore(text),
                  rhetorical_devices |-> RhetoricalDevices(text, lines),
                  wordplay |-> WordplayV2(text, lines),
                  paradox_philosophy |-> ParadoxPhilosophy(text, lines),
                  cultural_refs |-> FracMilli(CulturalHijacking(text, lines)),
                  slang_density |-> GetSlangDensity(text)]
    IN  Metrics(NonEmptyLines(text))

\* calculate_punchline_metrics
CalculatePunchlineMetrics(text) ==
    LET Metrics(lines) ==
            IF Len(lines) < MIN_LINES
            THEN [punchline_score |-> 0, rhetorical_devices |-> 0, wordplay |-> 0,
                  paradox_philosophy |-> 0, cultural_refs |-> 0, slang_density |-> 0]
            ELSE [punchline_score |-> CalculatePunchlineScore(text),
                  rhetorical_devices |-> RhetoricalDevices(text, lines),
                  wordplay |-> WordplayV2(text, lines),
                  paradox_philosophy |-> ParadoxPhilosophy(text, lines),
                  cultural_refs |-> FracMilli(CulturalHijacking(text, lines)),
                  slang_density |-> GetSlangDensity(text)]
    IN  Metrics(NonEmptyLines(text))

-----------------------------------------------------------------------------
(* The static tables of analyzers/innovation.py, influence.py,             *)
(* integrity.py and peak_excellence.py; a weight is in units of 1/1000     *)

\* the characters of the keys of the artist tables
ARTIST_SPELLING ==
       "booba" :> <<"b","o","o","b","a">>
    @@ "pnl" :> <<"p","n","l">>
    @@ "iam" :> <<"i","a","m">>
    @@ "nekfeu" :> <<"n","e","k","f","e","u">>
    @@ "sch" :> <<"s","c","h">>
    @@ "damso" :> <<"d","a","m","s","o">>
    @@ "kery james" :> <<"k","e","r","y"," ","j","a","m","e","s">>
    @@ "jul" :> <<"j","u","l">>
    @@ "ninho" :> <<"n","i","n","h","o">>
    @@ "freeze corleone" :> <<"f","r","e","e","z","e"," ","c","o","r","l","e","o","n","e">>
    @@ "rim'k" :> <<"r","i","m","'","k">>
    @@ "rohff" :> <<"r","o","h","f","f">>
    @@ "lino" :> <<"l","i","n","o">>
    @@ "vald" :> <<"v","a","l","d">>
    @@ "youssoupha" :> <<"y","o","u","s","s","o","u","p","h","a">>
    @@ "sofiane" :> <<"s","o","f","i","a","n","e">>
    @@ "djadja & dinaz" :> <<"d","j","a","d","j","a"," ","&"," ","d","i","n","a","z">>
    @@ "dosseh" :> <<"d","o","s","s","e","h">>
    @@ "flenn" :> <<"f","l","e","n","n">>
    @@ "ziak" :> <<"z","i","a","k">>
    @@ "hayce lemsi" :> <<"h","a","y","c","e"," ","l","e","m","s","i">>
    @@ "sinik" :> <<"s","i","n","i","k">>
    @@ "guizmo" :> <<"g","u","i","z","m","o">>
    @@ "sadek" :> <<"s","a","d","e","k">>
    @@ "bouss" :> <<"b","o","u","s","s">>
    @@ "kaaris" :> <<"k","a","a","r","i","s">>
    @@ "ntm" :> <<"n","t","m">>
    @@ "oxmo puccino" :> <<"o","x","m","o"," ","p","u","c","c","i","n","o">>
    @@ "mc solaar" :> <<"m","c"," ","s","o","l","a","a","r">>
    @@ "la fouine" :> <<"l","a"," ","f","o","u","i","n","e">>
    @@ "lacrim" :> <<"l","a","c","r","i","m">>
    @@ "maes" :> <<"m","a","e","s">>
    @@ "gazo" :> <<"g","a","z","o">>
    @@ "soprano" :> <<"s","o","p","r","a","n","o">>
    @@ "me'dine" :> <<"m","e'","d","i","n","e">>
    @@ "kalash criminel" :> <<"k","a","l","a","s","h"," ","c","r","i","m","i","n","e","l">>
    @@ "seth gueko" :> <<"s","e","t","h"," ","g","u","e","k","o">>
    @@ "alkpote" :> <<"a","l","k","p","o","t","e">>

ARTIST_DEBUT_YEARS ==
       "booba" :> 1994
    @@ "pnl" :> 2014
    @@ "iam" :> 1989
    @@ "nekfeu" :> 2011
    @@ "sch" :> 2015
    @@ "damso" :> 2015
    @@ "kery james" :> 1992
    @@ "jul" :> 2013
    @@ "ninho" :> 2016
    @@ "freeze corleone" :> 2017
    @@ "rim'k" :> 1995
    @@ "rohff" :> 1996
    @@ "lino" :> 1996
    @@ "vald" :> 2013
    @@ "youssoupha" :> 2007
    @@ "sofiane" :> 2011
    @@ "djadja & dinaz" :> 2015
    @@ "dosseh" :> 2010
    @@ "flenn" :> 2018
    @@ "ziak" :> 2020
    @@ "hayce lemsi" :> 2012
    @@ "sinik" :> 2002
    @@ "guizmo" :> 2010
    @@ "sadek" :> 2008
    @@ "bouss" :> 2019
    @@ "kaaris" :> 2012
    @@ "ntm" :> 1989
    @@ "oxmo puccino" :> 1996
    @@ "mc solaar" :> 1990
    @@ "la fouine" :> 2003
    @@ "lacrim" :> 2008
    @@ "maes" :> 2017
    @@ "gazo" :> 2019
    @@ "soprano" :> 1994
    @@ "me'dine" :> 2004
    @@ "kalash criminel" :> 2016
    @@ "seth gueko" :> 2006
    @@ "alkpote" :> 2003

STYLE_PIONEERS ==
    << [style |-> "melodic_marseille", pioneer |-> "jul", mainstream_year |-> 2016],
       [style |-> "cloud_rap_fr", pioneer |-> "pnl", mainstream_year |-> 2016],
       [style |-> "drill_fr", pioneer |-> "freeze corleone", mainstream_year |-> 2020],
       [style |-> "ego_trip_hardcore", pioneer |-> "booba", mainstream_year |-> 2002],
       [style |-> "boom_bap_conscious", pioneer |-> "iam", mainstream_year |-> 1997],
       [style |-> "afro_trap", pioneer |-> "ninho", mainstream_year |-> 2018],
       [style |-> "trap_melodique", pioneer |-> "damso", mainstream_year |-> 2017],
       [style |-> "melo_rap", pioneer |-> "soprano", mainstream_year |-> 2016] >>

INNOVATION_WEIGHTS ==
    [style_creation |-> 400, lyrical_uniqueness |-> 300, first_mover |-> 200, genre_fusion |-> 100]

INFLUENCE_WEIGHTS ==
    [wikipedia |-> 250, awards |-> 250, citations |-> 250, charts |-> 250]

ARTIST_DATA ==
       "booba" :> [debut |-> 1994, albums |-> 10, certs |-> 145]
    @@ "pnl" :> [debut |-> 2014, albums |-> 4, certs |-> 95]
    @@ "iam" :> [debut |-> 1989, albums |-> 9, certs |-> 85]
    @@ "nekfeu" :> [debut |-> 2011, albums |-> 5, certs |-> 85]
    @@ "sch" :> [debut |-> 2015, albums |-> 6, certs |-> 78]
    @@ "damso" :> [debut |-> 2015, albums |-> 5, certs |-> 72]
    @@ "kery james" :> [debut |-> 1992, albums |-> 8, certs |-> 45]
    @@ "jul" :> [debut |-> 2013, albums |-> 18, certs |-> 120]
    @@ "ninho" :> [debut |-> 2016, albums |-> 6, certs |-> 95]
    @@ "freeze corleone" :> [debut |-> 2017, albums |-> 3, certs |-> 28]
    @@ "rim'k" :> [debut |-> 1995, albums |-> 7, certs |-> 42]
    @@ "rohff" :> [debut |-> 1996, albums |-> 8, certs |-> 38]
    @@ "lino" :> [debut |-> 1996, albums |-> 5, certs |-> 28]
    @@ "vald" :> [debut |-> 2013, albums |-> 5, certs |-> 48]
    @@ "youssoupha" :> [debut |-> 2007, albums |-> 6, certs |-> 32]
    @@ "sofiane" :> [debut |-> 2011, albums |-> 5, certs |-> 35]
    @@ "djadja & dinaz" :> [debut |-> 2015, albums |-> 5, certs |-> 55]
    @@ "dosseh" :> [debut |-> 2010, albums |-> 4, certs |-> 25]
    @@ "flenn" :> [debut |-> 2018, albums |-> 2, certs |-> 8]
    @@ "ziak" :> [debut |-> 2020, albums |-> 2, certs |-> 22]
    @@ "hayce lemsi" :> [debut |-> 2012, albums |-> 4, certs |-> 12]
    @@ "sinik" :> [debut |-> 2002, albums |-> 6, certs |-> 22]
    @@ "guizmo" :> [debut |-> 2010, albums |-> 5, certs |-> 18]
    @@ "sadek" :> [debut |-> 2008, albums |-> 5, certs |-> 22]
    @@ "bouss" :> [debut |-> 2019, albums |-> 2, certs |-> 8]
    @@ "kaaris" :> [debut |-> 2012, albums |-> 8, certs |-> 32]
    @@ "ntm" :> [debut |-> 1989, albums |-> 4, certs |-> 65]
    @@ "oxmo puccino" :> [debut |-> 1996, albums |-> 9, certs |-> 35]
    @@ "mc solaar" :> [debut |-> 1990, albums |-> 8, certs |-> 80]
    @@ "la fouine" :> [debut |-> 2003, albums |-> 8, certs |-> 55]
    @@ "lacrim" :> [debut |-> 2008, albums |-> 7, certs |-> 48]
    @@ "maes" :> [debut |-> 2017, albums |-> 4, certs |-> 65]
    @@ "gazo" :> [debut |-> 2019, albums |-> 3, certs |-> 42]
    @@ "soprano" :> [debut |-> 1994, albums |-> 8, certs |-> 85]
    @@ "me'dine" :> [debut |-> 2004, albums |-> 8, certs |-> 18]
    @@ "kalash criminel" :> [debut |-> 2016, albums |-> 4, certs |-> 32]
    @@ "seth gueko" :> [debut |-> 2006, albums |-> 7, certs |-> 22]
    @@ "alkpote" :> [debut |-> 2003, albums |-> 8, certs |-> 15]

INTEGRITY_WEIGHTS ==
    [consistency |-> 350, independence |-> 300, trend_resistance |-> 200, feature_selectivity |-> 150]

ARTIST_INDEPENDENCE ==
       "booba" :> TRUE
    @@ "pnl" :> TRUE
    @@ "iam" :> FALSE
    @@ "nekfeu" :> TRUE
    @@ "sch" :> FALSE
    @@ "damso" :> TRUE
    @@ "kery james" :> TRUE
    @@ "jul" :> TRUE
    @@ "ninho" :> FALSE
    @@ "freeze corleone" :> TRUE
    @@ "rim'k" :> FALSE
    @@ "rohff" :> FALSE
    @@ "lino" :> TRUE
    @@ "vald" :> TRUE
    @@ "youssoupha" :> TRUE
    @@ "sofiane" :> FALSE
    @@ "djadja & dinaz" :> TRUE
    @@ "dosseh" :> FALSE
    @@ "flenn" :> TRUE
    @@ "ziak" :> TRUE
    @@ "hayce lemsi" :> TRUE
    @@ "sinik" :> FALSE
    @@ "guizmo" :> TRUE
    @@ "sadek" :> FALSE
    @@ "bouss" :> TRUE
    @@ "kaaris" :> FALSE
    @@ "ntm" :> FALSE
    @@ "oxmo puccino" :> TRUE
    @@ "mc solaar" :> FALSE
    @@ "la fouine" :> FALSE
    @@ "lacrim" :> FALSE
    @@ "maes" :> FALSE
    @@ "gazo" :> TRUE
    @@ "soprano" :> FALSE
    @@ "me'dine" :> TRUE
    @@ "kalash criminel" :> FALSE
    @@ "seth gueko" :> TRUE
    @@ "alkpote" :> TRUE

ARTIST_ALBUMS ==
       "booba" :> 10
    @@ "pnl" :> 4
    @@ "iam" :> 9
    @@ "nekfeu" :> 5
    @@ "sch" :> 6
    @@ "damso" :> 5
    @@ "kery james" :> 8
    @@ "jul" :> 18
    @@ "ninho" :> 6
    @@ "freeze corleone" :> 3
    @@ "rim'k" :> 7
    @@ "rohff" :> 8
    @@ "lino" :> 5
    @@ "vald" :> 5
    @@ "youssoupha" :> 6
    @@ "sofiane" :> 5
    @@ "djadja & dinaz" :> 5
    @@ "dosseh" :> 4
    @@ "flenn" :> 2
    @@ "ziak" :> 2
    @@ "hayce lemsi" :> 4
    @@ "sinik" :> 6
    @@ "guizmo" :> 5
    @@ "sadek" :> 5
    @@ "bouss" :> 2
    @@ "kaaris" :> 8
    @@ "ntm" :> 4
    @@ "oxmo puccino" :> 9
    @@ "mc solaar" :> 8
    @@ "la fouine" :> 8
    @@ "lacrim" :> 7
    @@ "maes" :> 4
    @@ "gazo" :> 3
    @@ "soprano" :> 8
    @@ "me'dine" :> 8
    @@ "kalash criminel" :> 4
    @@ "seth gueko" :> 7
    @@ "alkpote" :> 8

ARTIST_FEATURES ==
       "booba" :> 180
    @@ "pnl" :> 12
    @@ "iam" :> 120
    @@ "nekfeu" :> 65
    @@ "sch" :> 95
    @@ "damso" :> 55
    @@ "kery james" :> 95
    @@ "jul" :> 220
    @@ "ninho" :> 140
    @@ "freeze corleone" :> 75
    @@ "rim'k" :> 95
    @@ "rohff" :> 85
    @@ "lino" :> 75
    @@ "vald" :> 45
    @@ "youssoupha" :> 85
    @@ "sofiane" :> 75
    @@ "djadja & dinaz" :> 45
    @@ "dosseh" :> 85
    @@ "flenn" :> 25
    @@ "ziak" :> 18
    @@ "hayce lemsi" :> 55
    @@ "sinik" :> 65
    @@ "guizmo" :> 55
    @@ "sadek" :> 65
    @@ "bouss" :> 20
    @@ "kaaris" :> 85
    @@ "ntm" :> 40
    @@ "oxmo puccino" :> 80
    @@ "mc solaar" :> 60
    @@ "la fouine" :> 120
    @@ "lacrim" :> 95
    @@ "maes" :> 70
    @@ "gazo" :> 55
    @@ "soprano" :> 90
    @@ "me'dine" :> 65
    @@ "kalash criminel" :> 75
    @@ "seth gueko" :> 110
    @@ "alkpote" :> 95

TRENDING_TERMS_BY_YEAR ==
    << << <<"d","r","i","l","l">>, <<"a","u","t","o","t","u","n","e">>, <<"g","a","n","g">>, <<"f","l","e","x">>, <<"t","r","a","p">> >>,
       << <<"d","r","i","l","l">>, <<"c","l","o","u","d">>, <<"l","e","a","n">>, <<"p","e","r","c","o">>, <<"d","r","o","g","u","e">> >>,
       << <<"d","r","i","l","l">>, <<"c","o","r","o","n","a">>, <<"c","o","n","f","i","n","e">>, <<"m","a","s","q","u","e">>, <<"f","r","e","e","s","t","y","l","e">> >>,
       << <<"n","f","t">>, <<"c","r","y","p","t","o">>, <<"d","r","i","l","l">>, <<"a","f","r","o">>, <<"a","m","a","p","i","a","n","o">> >>,
       << <<"d","r","i","l","l">>, <<"j","e","r","s","e","y">>, <<"a","f","r","o">>, <<"p","l","u","g","g">>, <<"r","a","g","e">> >>,
       << <<"d","r","i","l","l">>, <<"a","f","r","o">>, <<"a","m","a","p","i","a","n","o">>, <<"r","a","g","e">>, <<"p","l","u","g","g","n","b">> >>,
       << <<"d","r","i","l","l">>, <<"a","f","r","o">>, <<"j","e","r","s","e","y">>, <<"p","l","u","g","g">>, <<"p","h","o","n","k">> >> >>

PEAK_WEIGHTS ==
    [peak_album |-> 600, classic_tracks |-> 400]

PEAK_ALBUMS ==
       "booba" :> <<"Futur", 5, 17>>
    @@ "pnl" :> <<"Deux fre!res", 5, 16>>
    @@ "iam" :> <<"L'e'cole du micro d'argent", 5, 18>>
    @@ "nekfeu" :> <<"Feu", 5, 18>>
    @@ "sch" :> <<"JVLIVS", 5, 19>>
    @@ "damso" :> <<"Lithope'dion", 5, 17>>
    @@ "kery james" :> <<"Dernier MC", 3, 16>>
    @@ "jul" :> <<"E'motions", 5, 25>>
    @@ "ninho" :> <<"Destin", 5, 18>>
    @@ "freeze corleone" :> <<"LMF", 3, 20>>
    @@ "rim'k" :> <<"Famille nombreuse", 3, 14>>
    @@ "rohff" :> <<"La fierte' des no^tres", 3, 16>>
    @@ "lino" :> <<"Paradis assassine'", 3, 13>>
    @@ "vald" :> <<"Agartha", 5, 16>>
    @@ "youssoupha" :> <<"Noir D****", 3, 16>>
    @@ "sofiane" :> <<"Bandit salete'", 3, 15>>
    @@ "djadja & dinaz" :> <<"On s'promet", 5, 14>>
    @@ "dosseh" :> <<"Vidalo$$a", 3, 15>>
    @@ "flenn" :> <<"Vent d'ouest", 1, 12>>
    @@ "ziak" :> <<"Akimbo", 3, 13>>
    @@ "hayce lemsi" :> <<"Electron Libre 2.0", 1, 15>>
    @@ "sinik" :> <<"Sang froid", 3, 14>>
    @@ "guizmo" :> <<"Dans ma ruche", 3, 15>>
    @@ "sadek" :> <<"Nique le casino", 3, 14>>
    @@ "bouss" :> <<"Paradis", 1, 12>>
    @@ "kaaris" :> <<"Or Noir", 5, 16>>
    @@ "ntm" :> <<"Paris sous les bombes", 5, 16>>
    @@ "oxmo puccino" :> <<"Ope'ra Puccino", 3, 15>>
    @@ "mc solaar" :> <<"Prose Combat", 5, 14>>
    @@ "la fouine" :> <<"Mes repe!res", 3, 16>>
    @@ "lacrim" :> <<"Corleone", 3, 15>>
    @@ "maes" :> <<"Pure", 5, 14>>
    @@ "gazo" :> <<"Drill FR", 3, 14>>
    @@ "soprano" :> <<"L'Everest", 5, 15>>
    @@ "me'dine" :> <<"Arabian Panther", 1, 16>>
    @@ "kalash criminel" :> <<"Se'lection naturelle", 3, 15>>
    @@ "seth gueko" :> <<"Michto", 3, 14>>
    @@ "alkpote" :> <<"L'empereur", 1, 15>>

CLASSIC_TRACKS ==
       "booba" :> 28
    @@ "pnl" :> 18
    @@ "iam" :> 22
    @@ "nekfeu" :> 15
    @@ "sch" :> 14
    @@ "damso" :> 16
    @@ "kery james" :> 18
    @@ "jul" :> 12
    @@ "ninho" :> 10
    @@ "freeze corleone" :> 12
    @@ "rim'k" :> 10
    @@ "rohff" :> 8
    @@ "lino" :> 12
    @@ "vald" :> 10
    @@ "youssoupha" :> 10
    @@ "sofiane" :> 6
    @@ "djadja & dinaz" :> 6
    @@ "dosseh" :> 5
    @@ "flenn" :> 4
    @@ "ziak" :> 6
    @@ "hayce lemsi" :> 4
    @@ "sinik" :> 5
    @@ "guizmo" :> 6
    @@ "sadek" :> 5
    @@ "bouss" :> 2
    @@ "kaaris" :> 15
    @@ "ntm" :> 20
    @@ "oxmo puccino" :> 18
    @@ "mc solaar" :> 20
    @@ "la fouine" :> 12
    @@ "lacrim" :> 10
    @@ "maes" :> 8
    @@ "gazo" :> 6
    @@ "soprano" :> 14
    @@ "me'dine" :> 10
    @@ "kalash criminel" :> 8
    @@ "seth gueko" :> 8
    @@ "alkpote" :> 7

-----------------------------------------------------------------------------
(* The table-driven components                                             *)
(*                                                                         *)
(* An artist identifier is a sequence of characters.  The keys of the      *)
(* tables are named by strings; ARTIST_SPELLING gives their characters.    *)
(* A score is an integer in units of 1/1000.                               *)

\* a value no table holds: dict.get() of a missing key
None == "None"

\* the key with '_' left in place
ArtistKey_KeepUnderscore(artist_id) ==
    [i \in 1..Len(artist_id) |->
        IF artist_id[i] = "-" THEN " " ELSE LowerChar(artist_id[i])]

\* artist_id.lower().replace("-", " ").replace("_", " ")
ArtistKey(artist_id) ==
    [i \in 1..Len(artist_id) |->
        IF artist_id[i] \in {"-", "_"} THEN " " ELSE LowerChar(artist_id[i])]

\* the table key spelled by the characters, None when no key is
TableKey(chars) ==
    IF \E k \in DOMAIN ARTIST_SPELLING : ARTIST_SPELLING[k] = chars
    THEN CHOOSE k \in DOMAIN ARTIST_SPELLING : ARTIST_SPELLING[k] = chars
    ELSE None

\* table.get(key, default)
Get(table, key, default) == IF key \in DOMAIN table THEN table[key] ELSE default

\* current_year of the career computations
CURRENT_YEAR == 2024

\* InnovationAnalyzer.calculate_first_mover_score
CalculateFirstMoverScore(artist_id) ==
    LET Score(artist_key, debut_year) ==
            LET Pioneered == {i \in 1..Len(STYLE_PIONEERS) :
                                 STYLE_PIONEERS[i].pioneer = artist_key}
                PioneerBonus(style) ==
                    Min(50000, (style.mainstream_year - debut_year) * 15000)
                base_score ==
                    IF Pioneered = {} THEN 30000
                    ELSE 30000 + PioneerBonus(STYLE_PIONEERS[SetMin(Pioneered)])
                longevity_bonus == Min(20000, ((CURRENT_YEAR - debut_year) * 1000) \div 2)
            IN  Min(100000, base_score + longevity_bonus)
        Lookup(artist_key) ==
            IF Get(ARTIST_DEBUT_YEARS, artist_key, 0) = 0 THEN 30000
            ELSE Score(artist_key, ARTIST_DEBUT_YEARS[artist_key])
    IN  Lookup(TableKey(ArtistKey(artist_id)))

\* InfluenceAnalyzer.calculate_charts_efficiency
CalculateChartsEfficiency(artist_id) ==
    LET Score(data) ==
            LET albums == Max(1, data.albums)
                \* efficiency = certs / albums, times 1.3 from ten albums on;
                \* normalized = efficiency / 20 * 100
                normalized == IF albums >= 10
                              THEN (data.certs * 6500) \div albums
                              ELSE (data.certs * 5000) \div albums
            IN  Max(0, Min(100000, normalized))
        Lookup(artist_key) ==
            IF artist_key \notin DOMAIN ARTIST_DATA THEN 40000
            ELSE Score(ARTIST_DATA[artist_key])
    IN  Lookup(TableKey(ArtistKey(artist_id)))

LEGENDARY_INDEPENDENTS == {"pnl", "jul", "booba", "freeze corleone"}
SIGNED_WITH_CONTROL == {"sch", "damso", "nekfeu"}

\* IntegrityAnalyzer.calculate_independence
CalculateIndependence(artist_id) ==
    LET Score(artist_key) ==
            IF ARTIST_INDEPENDENCE[artist_key]
            THEN IF artist_key \in LEGENDARY_INDEPENDENTS THEN 95000 ELSE 80000
            ELSE IF artist_key \in SIGNED_WITH_CONTROL THEN 55000 ELSE 40000
        Lookup(artist_key) ==
            IF artist_key \notin DOMAIN ARTIST_INDEPENDENCE THEN 50000
            ELSE Score(artist_key)
    IN  Lookup(TableKey(ArtistKey(artist_id)))

\* IntegrityAnalyzer.calculate_feature_selectivity
CalculateFeatureSelectivity(artist_id) ==
    LET Score(albums, features) ==
            \* feature_ratio = features / albums if albums > 0 else 10
            LET Below(limit) == IF albums > 0 THEN features < limit * albums
                                ELSE 10 < limit
            IN  IF Below(5) THEN 95000
                ELSE IF Below(10) THEN 80000
                ELSE IF Below(15) THEN 65000
                ELSE IF Below(20) THEN 50000
                ELSE 35000
        Lookup(artist_key) ==
            Score(Get(ARTIST_ALBUMS, artist_key, 5), Get(ARTIST_FEATURES, artist_key, 50))
    IN  Lookup(TableKey(ArtistKey(artist_id)))

CERT_SCORES == (5 :> 90000) @@ (3 :> 70000) @@ (1 :> 50000)

\* PeakAnalyzer.calculate_peak_album_score
CalculatePeakAlbumScore(artist_id) ==
    LET Score(album_data) ==
            LET cert_level == album_data[2]
                tracks == Max(album_data[3], 1)
                base_score == Get(CERT_SCORES, cert_level, 50000)
                \* efficiency = 15 / tracks; the bonus is (efficiency - 1) * 15
                efficiency_bonus == Min(10000, ((15 - tracks) * 15000) \div tracks)
            IN  Max(0, Min(100000, base_score + efficiency_bonus))
        Lookup(artist_key) ==
            IF artist_key \notin DOMAIN PEAK_ALBUMS THEN 50000
            ELSE Score(PEAK_ALBUMS[artist_key])
    IN  Lookup(TableKey(ArtistKey(artist_id)))

\* PeakAnalyzer.calculate_classic_tracks_score: <<count, score>>
CalculateClassicTracksScore(artist_id) ==
    LET Score(count) == <<count, Min(100000, (count * 100000) \div 30)>>
    IN  Score(Get(CLASSIC_TRACKS, TableKey(ArtistKey(artist_id)), 5))

\* PeakAnalyzer.calculate_peak_score
CalculatePeakScore(artist_id) ==
    LET Metrics(peak_album, classic) ==
            [peak_album_score     |-> peak_album,
             classic_tracks_count |-> classic[1],
             classic_tracks_score |-> classic[2],
             total_score |-> (peak_album * PEAK_WEIGHTS.peak_album
                              + classic[2] * PEAK_WEIGHTS.classic_tracks) \div 1000]
    IN  Metrics(CalculatePeakAlbumScore(artist_id), CalculateClassicTracksScore(artist_id))

-----------------------------------------------------------------------------
(* analyzers/vocabulary.py: filter_french_text                             *)

\* the character class of french_pattern
FRENCH_PATTERN ==
    {LOWERCASE[i] : i \in 1..26} \cup {UPPERCASE[i] : i \in 1..26}
    \cup {"a!", "a^", "a:", "e'", "e!", "e^", "e:", "i:", "i^", "o^",
          "u!", "u^", "u:", "oe&", "ae&", "c,"}
    \cup {"A!", "A^", "A:", "E'", "E!", "E^", "E:", "I:", "I^", "O^",
          "U!", "U^", "U:", "OE&", "AE&", "C,"}
    \cup DIGITS
    \cup {" ", "\n", ".", ",", ";", ":", "!", "?", "'", "\"", "-"}

WHITESPACE == {" ", "\n"}

\* the elements of a set of integers of lo..hi in increasing order
RECURSIVE SortedBetween(_, _, _)
SortedBetween(S, lo, hi) ==
    IF S = {} THEN <<>>
    ELSE IF lo = hi THEN <<lo>>
    ELSE SortedBetween({x \in S : x <= (lo + hi) \div 2}, lo, (lo + hi) \div 2)
         \o SortedBetween({x \in S : x > (lo + hi) \div 2}, (lo + hi) \div 2 + 1, hi)

\* the maximal runs of characters that Keep holds of, in order
RunsWhere(chars, Keep(_)) ==
    LET n == Len(chars)
        Runs(starts, ends) ==
            Eager([k \in 1..Len(starts) |-> SubSeq(chars, starts[k], ends[k])])
    IN  Runs(SortedBetween({i \in 1..n : Keep(chars[i]) /\ (i = 1 \/ ~Keep(chars[i - 1]))},
                           1, n),
             SortedBetween({i \in 1..n : Keep(chars[i]) /\ (i = n \/ ~Keep(chars[i + 1]))},
                           1, n))

\* ' '.join(pieces)
RECURSIVE JoinBlank(_)
JoinBlank(pieces) ==
    IF pieces = <<>> THEN <<>>
    ELSE IF Len(pieces) = 1 THEN pieces[1]
    ELSE pieces[1] \o <<" ">> \o JoinBlank(Tail(pieces))

\* filter_french_text: ' '.join(re.findall(french_pattern, text))
FilterFrenchText(chars) ==
    JoinBlank(RunsWhere(chars, LAMBDA c : c \in FRENCH_PATTERN))

\* str.split()
Split(chars) == RunsWhere(chars, LAMBDA c : c \notin WHITESPACE)

\* s[:n]
Take(s, n) == SubSeq(s, 1, Min(n, Len(s)))

Range(s) == {s[i] : i \in 1..Len(s)}

\* filter_french_text(text).lower().split()[:limit]
LyricsWords(text, limit) ==
    Take(Split(Lower(FilterFrenchText(Eager(TextChars(text))))), limit)

\* the hits counted from the left, each at least width after the last
RECURSIVE CountApart(_, _)
CountApart(hits, width) ==
    IF hits = {} THEN 0
    ELSE 1 + CountApart({h \in hits : h >= SetMin(hits) + width}, width)

\* haystack.count(needle): occurrences from the left that do not overlap;
\* the empty needle is found before every character and at the end
StrCount(chars, sub) ==
    IF sub = <<>> THEN Len(chars) + 1
    ELSE CountApart({i \in 1..(Len(chars) - Len(sub) + 1) :
                        SubSeq(chars, i, i + Len(sub) - 1) = sub}, Len(sub))

-----------------------------------------------------------------------------
(* nlp/slang_normalizer.py: normalize_slang on a string                    *)

\* ALL_SLANG = {**VERLAN_DICT, **ARABIC_SLANG}: <<key, standard French>>
ALL_SLANG == <<
    << <<"m","e","u","f">>, <<"f","e","m","m","e">> >>,
    << <<"k","e","u","f">>, <<"f","l","i","c">> >>,
    << <<"t","e","u","f">>, <<"f","e","t","e">> >>,
    << <<"c","h","e","l","o","u">>, <<"l","o","u","c","h","e">> >>,
    << <<"o","u","f">>, <<"f","o","u">> >>,
    << <<"c","i","m","e","r">>, <<"m","e","r","c","i">> >>,
    << <<"z","a","r","b","i">>, <<"b","i","z","a","r","r","e">> >>,
    << <<"r","e","l","o","u">>, <<"l","o","u","r","d">> >>,
    << <<"b","e","u","r">>, <<"a","r","a","b","e">> >>,
    << <<"r","e","b","e","u">>, <<"a","r","a","b","e">> >>,
    << <<"t","r","o","m">>, <<"m","e","t","r","o">> >>,
    << <<"r","e","u","m">>, <<"m","e","r","e">> >>,
    << <<"r","e","u","p">>, <<"p","e","r","e">> >>,
    << <<"r","e","u","f">>, <<"f","r","e","r","e">> >>,
    << <<"r","e","u","s">>, <<"s","o","e","u","r">> >>,
    << <<"t","e","c","i">>, <<"c","i","t","e">> >>,
    << <<"t","e","s","s">>, <<"c","i","t","e">> >>,
    << <<"z","y","v","a">>, <<"v","a","s","-","y">> >>,
    << <<"z","i","v","a">>, <<"v","a","s","-","y">> >>,
    << <<"v","a","z","y">>, <<"v","a","s","-","y">> >>,
    << <<"p","e'","c","h","o">>, <<"c","h","o","p","e","r">> >>,
    << <<"c","h","a","n","m","e'">>, <<"m","e'","c","h","a","n","t">> >>,
    << <<"v","e","n","e!","r","e">>, <<"e'","n","e","r","v","e'">> >>,
    << <<"c","a","i","n","r","i">>, <<"r","i","c","a","i","n">> >>,
    << <<"b","e'","d","a","v">>, <<"d","a","v">> >>,
    << <<"f","e","u","j">>, <<"j","u","i","f">> >>,
    << <<"r","e","n","o","i">>, <<"n","o","i","r">> >>,
    << <<"r","e","b","l","a","n">>, <<"b","l","a","n","c">> >>,
    << <<"c","e","f","r","a","n">>, <<"f","r","a","n","c","a","i","s">> >>,
    << <<"c","e'","f","r","a","n">>, <<"f","r","a","n","c","a","i","s">> >>,
    << <<"k","e","u","m">>, <<"m","e","c">> >>,
    << <<"i","e!","p","e">>, <<"p","i","e","d">> >>,
    << <<"i","e","p","e">>, <<"p","i","e","d">> >>,
    << <<"t","i","e!","p","e">>, <<"p","i","t","i","e'">> >>,
    << <<"t","i","e'","p","e">>, <<"p","i","t","i","e'">> >>,
    << <<"z","e","b","i">>, <<"b","i","t","e">> >>,
    << <<"z","e","b">>, <<"b","i","t","e">> >>,
    << <<"z","e","n">>, <<"n","e","z">> >>,
    << <<"z","e","t","l","a">>, <<"a","l","l","e","z">> >>,
    << <<"z","e","t","e","r">>, <<"t","i","r","e","r">> >>,
    << <<"z","o","m","b","l","o","u">>, <<"b","l","o","u","z","e'">> >>,
    << <<"z","o","n","m","a","i">>, <<"m","a","i","s","o","n">> >>,
    << <<"z","i","c","m","u">>, <<"m","u","s","i","q","u","e">> >>,
    << <<"m","e","u","f","e","u">>, <<"f","e","m","m","e">> >>,
    << <<"f","e","u","m","e","u">>, <<"f","e","m","m","e">> >>,
    << <<"b","e","u","b","a","r">>, <<"b","a","r","b","e">> >>,
    << <<"t","h","u","n","e">>, <<"a","r","g","e","n","t">> >>,
    << <<"o","s","e","i","l","l","e">>, <<"a","r","g","e","n","t">> >>,
    << <<"b","i","f","f">>, <<"a","r","g","e","n","t">> >>,
    << <<"b","l","e">>, <<"a","r","g","e","n","t">> >>,
    << <<"b","l","e'">>, <<"a","r","g","e","n","t">> >>,
    << <<"f","r","i","c">>, <<"a","r","g","e","n","t">> >>,
    << <<"p","o","g","n","o","n">>, <<"a","r","g","e","n","t">> >>,
    << <<"m","o","u","l","a">>, <<"a","r","g","e","n","t">> >>,
    << <<"m","o","u","l","a","g","a">>, <<"a","r","g","e","n","t">> >>,
    << <<"l","i","a","s","s","e">>, <<"a","r","g","e","n","t">> >>,
    << <<"w","a","r","i">>, <<"a","r","g","e","n","t">> >>,
    << <<"s","r","a","b">>, <<"a","r","a","b","e">> >>,
    << <<"g","a","d","j","i">>, <<"f","i","l","l","e">> >>,
    << <<"g","o">>, <<"f","i","l","l","e">> >>,
    << <<"g","o","v","a">>, <<"f","i","l","l","e">> >>,
    << <<"b","i","n","k","s">>, <<"m","a","u","v","a","i","s">> >>,
    << <<"c","h","a","n","c","l","e'">>, <<"c","h","a","n","c","e","l","a","n","t">> >>,
    << <<"d","a","r","o","n","n","e">>, <<"m","e","r","e">> >>,
    << <<"d","a","r","o","n">>, <<"p","e","r","e">> >>,
    << <<"d","e","t","e","r">>, <<"d","e","t","e","r","m","i","n","e'">> >>,
    << <<"g","o","w">>, <<"f","i","l","l","e">> >>,
    << <<"h","e","s","s">>, <<"m","i","s","e","r","e">> >>,
    << <<"l","a","s","s">>, <<"f","i","l","l","e">> >>,
    << <<"n","a","r","v","a","l","o">>, <<"i","d","i","o","t">> >>,
    << <<"p","a","r","o">>, <<"f","o","u">> >>,
    << <<"p","e","r","a">>, <<"p","e","r","e">> >>,
    << <<"r","a","g","e","u","x">>, <<"j","a","l","o","u","x">> >>,
    << <<"s","e","u","m">>, <<"r","a","g","e">> >>,
    << <<"s","h","l","a","g">>, <<"d","e","c","h","e","t">> >>,
    << <<"t","e","h">>, <<"s","h","i","t">> >>,
    << <<"t","i","e","k","s">>, <<"q","u","a","r","t","i","e","r">> >>,
    << <<"t","i","s","e">>, <<"a","l","c","o","o","l">> >>,
    << <<"w","e","s","h">>, <<"s","a","l","u","t">> >>,
    << <<"z","b","e","u","l">>, <<"b","o","r","d","e","l">> >>,
    << <<"z","o","u","z">>, <<"f","i","l","l","e">> >>,
    << <<"b","e","n","d","o">>, <<"q","u","a","r","t","i","e","r">> >>,
    << <<"b","l","o","c","k">>, <<"q","u","a","r","t","i","e","r">> >>,
    << <<"b","a","i","l">>, <<"t","r","u","c">> >>,
    << <<"b","a","i","l","s">>, <<"t","r","u","c","s">> >>,
    << <<"b","i","c","r","a","v","e">>, <<"v","e","n","d","r","e">> >>,
    << <<"c","a","i","l","l","a","s","s","e">>, <<"c","a","i","l","l","o","u","x">> >>,
    << <<"c","h","a","r","g","e","r">>, <<"a","t","t","a","q","u","e","r">> >>,
    << <<"c","r","a","r","i">>, <<"f","a","i","r","e">> >>,
    << <<"d","a","l","l","e">>, <<"r","i","e","n">> >>,
    << <<"d","e","a","d">>, <<"m","o","r","t">> >>,
    << <<"d","i","n","g","u","e","r","i","e">>, <<"f","o","l","i","e">> >>,
    << <<"e","q","u","i","p","e">>, <<"g","r","o","u","p","e">> >>,
    << <<"i","g","o">>, <<"a","m","i">> >>,
    << <<"k","i","f","f","e","r">>, <<"a","i","m","e","r">> >>,
    << <<"l","o","v","e","r">>, <<"d","r","a","g","u","e","r">> >>,
    << <<"p","e","u","f","r","a">>, <<"f","r","a","p","p","e","r">> >>,
    << <<"p","i","s","t","a","v","e">>, <<"p","i","s","t","e">> >>,
    << <<"p","o","u","c","a","v","e">>, <<"b","a","l","a","n","c","e">> >>,
    << <<"r","a","t","p","i">>, <<"p","a","r","t","i">> >>,
    << <<"s","a","h">>, <<"f","r","e","r","e">> >>,
    << <<"s","c","e","-","l","a">>, <<"p","l","a","c","e">> >>,
    << <<"s","h","i","f","t","e","r">>, <<"f","u","m","e","r">> >>,
    << <<"s","'","t","e","r">>, <<"p","a","r","t","i","r">> >>,
    << <<"t","a","r","b","a">>, <<"t","a","b","a","s","s","e","r">> >>,
    << <<"t","c","h","i","p">>, <<"m","e","p","r","i","s">> >>,
    << <<"t","e","r","-","s","h","i">>, <<"s","h","i","t">> >>,
    << <<"v","a","l","i","d","e'">>, <<"a","p","p","r","o","u","v","e'">> >>,
    << <<"w","a","l","l","a","h">>, <<"j","e"," ","j","u","r","e">> >>,
    << <<"s","t","a","r","f","o","u","l","l","a","h">>, <<"p","a","r","d","o","n"," ","d","i","e","u">> >>,
    << <<"h","a","m","d","o","u","l","a","h">>, <<"g","r","a","c","e"," ","a"," ","d","i","e","u">> >>,
    << <<"i","n","s","h","a","l","l","a","h">>, <<"s","i"," ","d","i","e","u"," ","v","e","u","t">> >>,
    << <<"m","a","s","h","a","l","l","a","h">>, <<"g","r","a","c","e"," ","a"," ","d","i","e","u">> >>,
    << <<"h","a","r","a","m">>, <<"i","n","t","e","r","d","i","t">> >>,
    << <<"h","a","l","a","l">>, <<"p","e","r","m","i","s">> >>,
    << <<"k","h","o","u","y","a">>, <<"f","r","e","r","e">> >>,
    << <<"k","h","o","y","a">>, <<"f","r","e","r","e">> >>,
    << <<"a","k","h","i">>, <<"f","r","e","r","e">> >>,
    << <<"s","a","h","b","i">>, <<"a","m","i">> >>,
    << <<"c","h","o","u","f">>, <<"r","e","g","a","r","d","e">> >>,
    << <<"h","c","h","o","u","m","a">>, <<"h","o","n","t","e">> >>,
    << <<"l","a">>, <<"n","o","n">> >>,
    << <<"o","u","a","i","s">>, <<"o","u","i">> >>,
    << <<"m","i","s","k","i","n","e">>, <<"p","a","u","v","r","e">> >>,
    << <<"m","e","s","k","i","n">>, <<"p","a","u","v","r","e">> >>,
    << <<"k","i","f">>, <<"p","l","a","i","s","i","r">> >>,
    << <<"b","l","e","d">>, <<"p","a","y","s">> >>,
    << <<"b","l","e","d","a">>, <<"v","i","l","l","a","g","e">> >>,
    << <<"b","e","z","e","f">>, <<"b","e","a","u","c","o","u","p">> >>,
    << <<"z","h","a","r">>, <<"c","h","a","n","c","e">> >>,
    << <<"n","i","f">>, <<"o","r","g","u","e","i","l">> >>,
    << <<"b","a","r","a","k","a">>, <<"b","e","n","e","d","i","c","t","i","o","n">> >>,
    << <<"z","e","r","m","a">>, <<"g","e","n","r","e">> >>
>>

\* w.strip(chars)
RECURSIVE StripLeft(_, _)
StripLeft(s, chars) ==
    IF s # <<>> /\ Head(s) \in chars THEN StripLeft(Tail(s), chars) ELSE s
RECURSIVE StripRight(_, _)
StripRight(s, chars) ==
    IF s # <<>> /\ s[Len(s)] \in chars
    THEN StripRight(SubSeq(s, 1, Len(s) - 1), chars) ELSE s
StripChars(s, chars) == StripRight(StripLeft(s, chars), chars)

\* the place of a key in ALL_SLANG (0: lower not in ALL_SLANG)
SlangIndex(lower) ==
    IF \E k \in 1..Len(ALL_SLANG) : ALL_SLANG[k][1] = lower
    THEN CHOOSE k \in 1..Len(ALL_SLANG) : ALL_SLANG[k][1] = lower
    ELSE 0

\* word.lower().strip(",.!?;:'\"()[]")
SlangKey(word) == StripChars(Lower(word), SLANG_STRIP)

\* str.isupper() on one character, str.upper() on the letters of the tables
IsUpperChar(c) == c \in {UPPERCASE[i] : i \in 1..26} \cup {"E'", "E!"}
UpperLetter(c) ==
    IF \E i \in 1..26 : LOWERCASE[i] = c
    THEN UPPERCASE[CHOOSE i \in 1..26 : LOWERCASE[i] = c]
    ELSE IF c = "e'" THEN "E'"
    ELSE IF c = "e!" THEN "E!"
    ELSE c

\* str.capitalize()
Capitalize(s) ==
    IF s = <<>> THEN s
    ELSE <<UpperLetter(s[1])>> \o Lower(Tail(s))

\* normalize_slang
NormalizeSlang(text, keep_original_for_rhymes) ==
    LET Replacement(word, k) ==
            IF IsUpperChar(word[1]) THEN Capitalize(ALL_SLANG[k][2])
            ELSE ALL_SLANG[k][2]
        Normalized(word, k) ==
            IF k # 0
            THEN IF keep_original_for_rhymes THEN word
                 ELSE Replacement(word, k)
            ELSE word
        Each(words) ==
            [i \in 1..Len(words) |-> Normalized(words[i], SlangIndex(SlangKey(words[i])))]
    IN  JoinBlank(Each(Split(text)))

-----------------------------------------------------------------------------
(* analyzers/vocabulary.py: calculate_unique_words                         *)
(*                                                                         *)
(* The function looks at its text through three measurements: whether      *)
(* the lyrics are blank, len(text.split()) of the filtered and normalized  *)
(* text, and the number of unique lemmas the tokenizer returns for it.     *)
(* A text is the record of the three; the library is LexicalRichness,      *)
(* imported or not, whose mtld() raises (<<>>) or returns a float          *)
(* (<<v>>, in units of 1/1000).                                            *)

\* calculate_unique_words with the factor mtld / 80 left as it is
CalculateUniqueWords_NoClamp(text, env) ==
    IF text.blank THEN 0
    ELSE LET raw_unique_count == text.lemmas
             diversity_factor ==
                 IF env.LEXICALRICHNESS_AVAILABLE /\ text.words >= 100
                 THEN IF env.mtld = <<>> THEN 1000
                      ELSE env.mtld[1] \div 80
                 ELSE 1000
             adjusted_count == (raw_unique_count * diversity_factor) \div 1000
         IN  Min(adjusted_count, 12000)

\* calculate_unique_words
CalculateUniqueWords(text, env) ==
    IF text.blank THEN 0
    ELSE LET raw_unique_count == text.lemmas
             diversity_factor ==
                 IF env.LEXICALRICHNESS_AVAILABLE /\ text.words >= 100
                 THEN IF env.mtld = <<>> THEN 1000
                      ELSE Max(500, Min(1500, env.mtld[1] \div 80))
                 ELSE 1000
             adjusted_count == (raw_unique_count * diversity_factor) \div 1000
         IN  Min(adjusted_count, 12000)

-----------------------------------------------------------------------------
(* analyzers/innovation.py: InnovationAnalyzer                             *)
(*                                                                         *)
(* The corpus all_lyrics is a dict: a sequence of <<artist_id, text>>    *)
(* with distinct identifiers, in insertion order.  The analyzer is the     *)
(* record of its fields; artist_vectors keeps the identifiers that own a   *)
(* vector.  The library is the record env: whether it was imported         *)
(* (SKLEARN_AVAILABLE), whether fit_transform raises on the corpus, and    *)
(* the cosine similarities it returns, in units of 1/1000.                 *)

Ids(all_lyrics) == {all_lyrics[i][1] : i \in 1..Len(all_lyrics)}

\* corpus_vocab is None or a set: <<>> for None, <<S>> for the set S
NoVocab == <<>>

\* self after __init__
NewAnalyzer ==
    [tfidf_vectorizer    |-> None,
     artist_vectors      |-> {},
     corpus_vocab        |-> NoVocab,
     artist_lemmas_cache |-> <<>>]

\* set(text.lower().split()[:3000]) of _build_corpus_vocab
WordSet(text) == Range(LyricsWords(text, 3000))

\* _build_corpus_vocab
BuildCorpusVocab(self, all_lyrics) ==
    IF self.corpus_vocab # NoVocab THEN self
    ELSE
    LET Built(words) ==
            [self EXCEPT
                !.corpus_vocab = <<UNION {words[i] : i \in 1..Len(words)}>>,
                !.artist_lemmas_cache =
                    [id \in DOMAIN self.artist_lemmas_cache \cup Ids(all_lyrics) |->
                        IF id \in Ids(all_lyrics)
                        THEN words[CHOOSE i \in 1..Len(words) : all_lyrics[i][1] = id]
                        ELSE self.artist_lemmas_cache[id]]]
    IN  Built(Eager([i \in 1..Len(all_lyrics) |-> WordSet(all_lyrics[i][2])]))

\* fit_transform raises: min_df = 2 documents is above max_df = 0.90 of the
\* corpus, or the library keeps no term of it
FitRaises(env, all_lyrics) ==
    env.fit_raises \/ Len(all_lyrics) * 90 < 2 * 100

\* _build_tfidf_model: nothing without the library; a fit that raises
\* leaves artist_vectors as it was
BuildTfidfModel(self, env, all_lyrics) ==
    IF ~env.SKLEARN_AVAILABLE THEN self
    ELSE IF FitRaises(env, all_lyrics)
    THEN [self EXCEPT !.tfidf_vectorizer = "TfidfVectorizer"]
    ELSE [self EXCEPT !.tfidf_vectorizer = "TfidfVectorizer",
                      !.artist_vectors = self.artist_vectors \cup Ids(all_lyrics)]

\* the calls of fit_transform one call of _build_tfidf_model makes
FitAttempts(env) == IF env.SKLEARN_AVAILABLE THEN 1 ELSE 0

\* calculate_style_uniqueness
CalculateStyleUniqueness(self, env, artist_id) ==
    IF ~env.SKLEARN_AVAILABLE \/ artist_id \notin self.artist_vectors THEN 50000
    ELSE IF Cardinality(self.artist_vectors) < 2 THEN 50000
    ELSE
    LET uniqueness == (1000 - env.cosine.centroid) * 100
        min_similarity == Min(1000, env.cosine.neighbor)
        neighbor_uniqueness == (1000 - min_similarity) * 100
        combined == (uniqueness * 6 + neighbor_uniqueness * 4) \div 10
    IN  Min(100000, Max(0, combined))

\* list(a_set): the elements in some order, each once
ListOf(S) == CHOOSE s \in [1..Cardinality(S) -> S] : Range(s) = S

\* Counter(words)
Counter(words) == [w \in Range(words) |-> Cardinality({i \in 1..Len(words) : words[i] = w})]

\* calculate_vocabulary_distinctiveness: the analyzer it leaves and the score
CalculateVocabularyDistinctiveness(self, text, all_lyrics, artist_id) ==
    IF text = EmptyText THEN [self |-> self, value |-> 0]
    ELSE
    LET Score(words) ==
            IF words = <<>> THEN [self |-> self, value |-> 0]
            ELSE
            LET Blend(word_counts, artist_vocab, built) ==
                    LET hapax_count == Cardinality({w \in DOMAIN word_counts : word_counts[w] = 1})
                        hapax_score ==
                            Min(100000, (hapax_count * 150000) \div Cardinality(DOMAIN word_counts))
                        other_vocab == built.corpus_vocab[1] \ artist_vocab
                        unique_terms == artist_vocab \ other_vocab
                        uniqueness_score ==
                            Min(100000, (Cardinality(unique_terms) * 100000)
                                            \div Cardinality(artist_vocab))
                        final_score == (hapax_score * 500 + uniqueness_score * 500) \div 1000
                    IN  [self |-> built, value |-> Min(100000, Max(0, final_score))]
            IN  Blend(Counter(words), Range(words),
                      IF self.corpus_vocab = NoVocab
                      THEN BuildCorpusVocab(self, all_lyrics) ELSE self)
    IN  Score(IF artist_id # <<>> /\ artist_id \in DOMAIN self.artist_lemmas_cache
              THEN ListOf(self.artist_lemmas_cache[artist_id])
              ELSE LyricsWords(text, 3000))

ARABIC_INDICATORS ==
    <<
     <<"w","a","l","l","a","h">>, <<"h","a","m","d","o","u","l","a","h">>,
     <<"i","n","s","h","a","l","l","a","h">>,
     <<"b","i","s","m","i","l","l","a","h">>,
     <<"m","a","s","h","a","l","l","a","h">>, <<"h","a","r","a","m">>,
     <<"h","a","l","a","l">>, <<"a","k","h","i">>, <<"k","h","o","y","a">>,
     <<"k","e","l","b">>, <<"s","a","h","b","i">> >>

ENGLISH_INDICATORS ==
    <<
     <<"m","o","n","e","y">>, <<"s","t","r","e","e","t">>,
     <<"g","a","m","e">>, <<"r","e","a","l">>, <<"f","u","c","k">>,
     <<"s","h","i","t">>, <<"b","i","t","c","h">>,
     <<"h","u","s","t","l","e">>, <<"g","r","i","n","d">>,
     <<"g","a","n","g">>, <<"f","l","o","w">> >>

SPANISH_INDICATORS ==
    <<
     <<"a","m","i","g","o">>, <<"l","o","c","o">>, <<"n","a","d","a">>,
     <<"v","i","d","a">>, <<"a","m","o","r">>, <<"f","u","e","g","o">> >>

TOPIC_KEYWORDS ==
    <<
     \* street
     {<<"r","u","e">>, <<"q","u","a","r","t","i","e","r">>,
      <<"b","l","o","c">>, <<"b","e'","t","o","n">>,
      <<"g","h","e","t","t","o">>, <<"c","i","t","e'">>},
     \* money
     {<<"a","r","g","e","n","t">>, <<"b","i","l","l","e","t">>,
      <<"e","u","r","o","s">>, <<"l","i","a","s","s","e">>,
      <<"f","o","r","t","u","n","e">>, <<"r","i","c","h","e">>},
     \* love
     {<<"a","m","o","u","r">>, <<"c","oe&","u","r">>,
      <<"a","i","m","e","r">>, <<"f","e","m","m","e">>,
      <<"b","e","l","l","e">>, <<"s","e","n","t","i","m","e","n","t">>},
     \* party
     {<<"f","e^","t","e">>, <<"d","a","n","s","e">>, <<"c","l","u","b">>,
      <<"n","u","i","t">>, <<"b","o","u","t","e","i","l","l","e">>,
      <<"c","h","a","m","p","a","g","n","e">>},
     \* conscious
     {<<"s","o","c","i","e'","t","e'">>,
      <<"p","o","l","i","t","i","q","u","e">>,
      <<"s","y","s","t","e!","m","e">>, <<"j","u","s","t","i","c","e">>,
      <<"p","e","u","p","l","e">>},
     \* spiritual
     {<<"d","i","e","u">>, <<"p","r","i","e!","r","e">>, <<"f","o","i">>,
      <<"a^","m","e">>, <<"d","e","s","t","i","n">>,
      <<"p","a","r","a","d","i","s">>}>>

\* calculate_genre_fusion
CalculateGenreFusion(text) ==
    IF text = EmptyText THEN 0
    ELSE
    LET Score(lyrics_lower) ==
            LET Present(indicators) ==
                    Cardinality({i \in 1..Len(indicators) : Contains(lyrics_lower, indicators[i])})
                Language(count, cap, each) ==
                    IF count > 0 THEN Min(cap, count * each) ELSE 0
                topics_present ==
                    Cardinality({t \in 1..Len(TOPIC_KEYWORDS) :
                                    \E kw \in TOPIC_KEYWORDS[t] : Contains(lyrics_lower, kw)})
                score == Language(Present(ARABIC_INDICATORS), 25000, 5000)
                       + Language(Present(ENGLISH_INDICATORS), 15000, 3000)
                       + Language(Present(SPANISH_INDICATORS), 10000, 5000)
                       + (topics_present * 50000) \div Len(TOPIC_KEYWORDS)
            IN  Min(100000, Max(0, score))
    IN  Score(Eager(Lower(TextChars(text))))

\* the components of one score and the weighted total
InnovationMetrics(style_uniqueness, vocab_distinctiveness, first_mover, genre_fusion) ==
    [style_uniqueness           |-> style_uniqueness,
     vocabulary_distinctiveness |-> vocab_distinctiveness,
     first_mover_score          |-> first_mover,
     genre_fusion_score         |-> genre_fusion,
     total_score |-> (style_uniqueness * INNOVATION_WEIGHTS.style_creation
                      + vocab_distinctiveness * INNOVATION_WEIGHTS.lyrical_uniqueness
                      + first_mover * INNOVATION_WEIGHTS.first_mover
                      + genre_fusion * INNOVATION_WEIGHTS.genre_fusion) \div 1000]

\* calculate_innovation_score with the corpus vocabulary built only once
\* the corpus model holds vectors
CalculateInnovationScore_VocabAfterModel(self, env, artist_id, text, all_lyrics) ==
    LET WithVocab(modelled) ==
            IF modelled.artist_vectors # {} /\ modelled.corpus_vocab = NoVocab /\ all_lyrics # <<>>
            THEN BuildCorpusVocab(modelled, all_lyrics) ELSE modelled
        Components(ready, fits) ==
            LET Result(vocab) ==
                    [self |-> vocab.self,
                     fit_attempts |-> fits,
                     value |-> InnovationMetrics(
                                   CalculateStyleUniqueness(ready, env, artist_id),
                                   vocab.value,
                                   CalculateFirstMoverScore(artist_id),
                                   CalculateGenreFusion(text))]
            IN  Result(CalculateVocabularyDistinctiveness(ready, text, all_lyrics, artist_id))
    IN  IF self.artist_vectors = {} /\ all_lyrics # <<>>
        THEN Components(WithVocab(BuildTfidfModel(self, env, all_lyrics)), FitAttempts(env))
        ELSE Components(WithVocab(self), 0)

\* calculate_innovation_score: the analyzer it leaves, the calls of
\* fit_transform it made and the metrics
CalculateInnovationScore(self, env, artist_id, text, all_lyrics) ==
    LET WithVocab(modelled) ==
            IF modelled.corpus_vocab = NoVocab /\ all_lyrics # <<>>
            THEN BuildCorpusVocab(modelled, all_lyrics) ELSE modelled
        Components(ready, fits) ==
            LET Result(vocab) ==
                    [self |-> vocab.self,
                     fit_attempts |-> fits,
                     value |-> InnovationMetrics(
                                   CalculateStyleUniqueness(ready, env, artist_id),
                                   vocab.value,
                                   CalculateFirstMoverScore(artist_id),
                                   CalculateGenreFusion(text))]
            IN  Result(CalculateVocabularyDistinctiveness(ready, text, all_lyrics, artist_id))
    IN  IF self.artist_vectors = {} /\ all_lyrics # <<>>
        THEN Components(WithVocab(BuildTfidfModel(self, env, all_lyrics)), FitAttempts(env))
        ELSE Components(WithVocab(self), 0)

-----------------------------------------------------------------------------
(* analyzers/influence.py: InfluenceAnalyzer                               *)
(*                                                                         *)
(* An Optional[dict] argument is <<>> for None or an empty dict and <<d>>  *)
(* for the dict d, a record of its keys.                                   *)

\* calculate_wikipedia_score
CalculateWikipediaScore(wiki_data) ==
    IF wiki_data = <<>> THEN 30000
    ELSE
    LET Normalized(raw_score) == Max(0, Min(100000, (raw_score * 100) \div 200))
    IN  Normalized(Get(wiki_data[1], "backlinks_count", 0) * 500
                   + Get(wiki_data[1], "pageviews_monthly", 0) \div 5
                   + Get(wiki_data[1], "languages_count", 1) * 3000
                   + Get(wiki_data[1], "references_count", 0) * 200)

\* calculate_awards_score
CalculateAwardsScore(awards_data) ==
    IF awards_data = <<>> THEN 30000
    ELSE
    LET Normalized(raw_score) == Max(0, Min(100000, (raw_score * 100000) \div 150))
    IN  Normalized(Get(awards_data[1], "weighted_awards_score", 0)
                   + Get(awards_data[1], "weighted_certs_score", 0))

\* name_variations: the artist key and the other names searched for
NAME_VARIATIONS ==
    <<
     << <<"b","o","o","b","a">>,
       << <<"b","2","o">>, <<"k","o","p","p">>, <<"9","2","i">> >> >>,
     << <<"p","n","l">>,
       << <<"a","d","e","m","o">>, <<"n",".","o",".","s">>,
         <<"d","e","u","x"," ","f","r","e!","r","e","s">> >> >>,
     << <<"i","a","m">>,
       << <<"a","k","h","e","n","a","t","o","n">>,
         <<"s","h","u","r","i","k","'","n">> >> >>,
     << <<"j","u","l">>,
       << <<"j","u","j","u">>,
         <<"j","u","l","i","e","n"," ","m","a","r","i">>,
         <<"j",".","u",".","l">> >> >>,
     << <<"n","e","k","f","e","u">>,
       << <<"k","e","n"," ","s","a","m","a","r","a","s">>, <<"f","e","u">> >> >>,
     << <<"s","c","h">>,
       << <<"s",".","c",".","h">> >> >>,
     << <<"d","a","m","s","o">>,
       << <<"d","e","m","s">> >> >>,
     << <<"k","a","a","r","i","s">>,
       << <<"d","o","u","b","l","e"," ","k">> >> >>,
     << <<"n","t","m">>,
       << <<"j","o","e","y"," ","s","t","a","r","r">>,
         <<"k","o","o","l"," ","s","h","e","n">> >> >>,
     << <<"f","r","e","e","z","e"," ","c","o","r","l","e","o","n","e">>,
       << <<"f","r","e","e","z","e">>, <<"c","o","r","l","e","o","n","e">>,
         <<"6","6","7">> >> >>,
     << <<"g","a","z","o">>,
       << <<"g","a","z","o"," ","d","r","i","l","l">> >> >>,
     << <<"m","c"," ","s","o","l","a","a","r">>,
       << <<"s","o","l","a","a","r">>,
         <<"c","l","a","u","d","e"," ","m","c">> >> >> >>

\* [artist_key] and the name variations of the key
SearchTerms(artist_key) ==
    LET Known == {i \in 1..Len(NAME_VARIATIONS) : NAME_VARIATIONS[i][1] = artist_key}
    IN  IF Known = {} THEN <<artist_key>>
        ELSE <<artist_key>> \o NAME_VARIATIONS[CHOOSE i \in Known : TRUE][2]

\* calculate_citation_score
CalculateCitationScore(artist_id, all_lyrics) ==
    LET Score(artist_key, search_terms) ==
            LET \* the count of the first term found in the lyrics of the
                \* other artist, 0 when none is found
                Mentions(i) ==
                    LET First(lyrics_lower) ==
                            LET Found == {t \in 1..Len(search_terms) :
                                            Contains(lyrics_lower, search_terms[t])}
                            IN  IF Found = {} THEN 0
                                ELSE StrCount(lyrics_lower, search_terms[SetMin(Found)])
                    IN  IF Lower(all_lyrics[i][1]) = artist_key THEN 0
                        ELSE First(Eager(Lower(TextChars(all_lyrics[i][2]))))
                Normalized(counts) ==
                    LET mentioned_by == {i \in 1..Len(counts) : counts[i] > 0}
                        raw_score == Cardinality(mentioned_by) * 10 + SumSeq(counts)
                    IN  Max(0, Min(100000, raw_score * 1000))
            IN  Normalized(Eager([i \in 1..Len(all_lyrics) |-> Mentions(i)]))
    IN  Score(ArtistKey(artist_id), SearchTerms(ArtistKey(artist_id)))

\* calculate_influence_score
CalculateInfluenceScore(artist_id, wiki_data, awards_data, all_lyrics) ==
    LET Metrics(wikipedia_score, awards_score, citation_score, charts_efficiency) ==
            [wikipedia_score   |-> wikipedia_score,
             awards_score      |-> awards_score,
             citation_score    |-> citation_score,
             charts_efficiency |-> charts_efficiency,
             total_score |-> (wikipedia_score * INFLUENCE_WEIGHTS.wikipedia
                              + awards_score * INFLUENCE_WEIGHTS.awards
                              + citation_score * INFLUENCE_WEIGHTS.citations
                              + charts_efficiency * INFLUENCE_WEIGHTS.charts) \div 1000]
    IN  Metrics(CalculateWikipediaScore(wiki_data),
                CalculateAwardsScore(awards_data),
                CalculateCitationScore(artist_id, all_lyrics),
                CalculateChartsEfficiency(artist_id))

-----------------------------------------------------------------------------
(* analyzers/integrity.py: IntegrityAnalyzer                               *)
(*                                                                         *)
(* The lemmatizer and the TF-IDF library are the record nlp: whether the   *)
(* library was imported, the number of lemmas the tokenizer returns for    *)
(* the text, whether fit_transform raises ValueError, and the mean of the  *)
(* pairwise cosine similarities of the chunks in units of 1/1000.          *)

\* the chunks of calculate_consistency:
\* len(range(0, len(lemmas) - chunk_size, chunk_size))
ChunkCount(lemmas) ==
    LET Steps(chunk_size) ==
            IF lemmas <= chunk_size THEN 0
            ELSE (lemmas - chunk_size + chunk_size - 1) \div chunk_size
    IN  Steps(Max(100, lemmas \div 10))

\* the slices lemmas[i:i + chunk_size] of calculate_consistency, each by
\* its bounds i and i + chunk_size
ConsistencyChunks(lemmas) ==
    LET Slices(chunk_size) ==
            [k \in 1..ChunkCount(lemmas) |->
                [start |-> (k - 1) * chunk_size, stop |-> k * chunk_size]]
    IN  Slices(Max(100, lemmas \div 10))

\* calculate_consistency
CalculateConsistency(text, nlp) ==
    IF text = EmptyText \/ ~nlp.SKLEARN_AVAILABLE THEN 50000
    ELSE IF nlp.lemmas < 100 THEN 50000
    ELSE IF ChunkCount(nlp.lemmas) < 3 THEN 60000
    ELSE IF nlp.fit_raises THEN 60000
    ELSE Min(100000, Max(0, nlp.avg_similarity * 100))

\* calculate_trend_resistance
CalculateTrendResistance(text) ==
    IF text = EmptyText THEN 50000
    ELSE
    LET Tier(total_trending, word_count) ==
            \* trend_density = total_trending / (word_count / 1000)
            IF word_count < 100 THEN 50000
            ELSE IF total_trending * 1000 < 2 * word_count THEN 90000
            ELSE IF total_trending * 1000 < 5 * word_count THEN 75000
            ELSE IF total_trending * 1000 < 10 * word_count THEN 60000
            ELSE IF total_trending * 1000 < 15 * word_count THEN 45000
            ELSE 30000
        Count(lyrics_lower) ==
            SumSeq([y \in 1..Len(TRENDING_TERMS_BY_YEAR) |->
                        SumSeq([t \in 1..Len(TRENDING_TERMS_BY_YEAR[y]) |->
                                    StrCount(lyrics_lower, TRENDING_TERMS_BY_YEAR[y][t])])])
    IN  Tier(Count(Eager(Lower(TextChars(text)))), TextWordCount(text))

\* calculate_integrity_score
CalculateIntegrityScore(artist_id, text, nlp) ==
    LET Metrics(consistency, independence, trend_resistance, feature_selectivity) ==
            [consistency_score   |-> consistency,
             independence_score  |-> independence,
             trend_resistance    |-> trend_resistance,
             feature_selectivity |-> feature_selectivity,
             total_score |-> (consistency * INTEGRITY_WEIGHTS.consistency
                              + independence * INTEGRITY_WEIGHTS.independence
                              + trend_resistance * INTEGRITY_WEIGHTS.trend_resistance
                              + feature_selectivity * INTEGRITY_WEIGHTS.feature_selectivity)
                             \div 1000]
    IN  Metrics(CalculateConsistency(text, nlp),
                CalculateIndependence(artist_id),
                CalculateTrendResistance(text),
                CalculateFeatureSelectivity(artist_id))

-----------------------------------------------------------------------------
(* analyzers/thematic.py: ThematicAnalyzer                                 *)
(*                                                                         *)
(* A theme distribution is the record [counts, total]: the weight of the   *)
(* theme at index i is counts[i] / total.                                  *)

\* the themes in the order of the dict, each with its keywords
THEME_NAMES ==
    <<"street", "money", "love", "party", "conscious", "spiritual", "ego">>

THEME_KEYWORDS ==
    <<
     \* street
     {<<"r","u","e">>, <<"q","u","a","r","t","i","e","r">>,
      <<"b","l","o","c">>, <<"b","e'","t","o","n">>,
      <<"g","h","e","t","t","o">>, <<"c","i","t","e'">>,
      <<"b","i","t","u","m","e">>, <<"t","r","a","f","i","c">>,
      <<"d","e","a","l">>, <<"s","t","u","p">>,
      <<"b","i","c","r","a","v","e">>, <<"w","e","e","d">>,
      <<"s","h","i","t">>, <<"c","o","c","a","i","n","e">>,
      <<"f","l","i","c">>, <<"b","a","c">>,
      <<"g","a","r","d","e"," ","a!"," ","v","u","e">>,
      <<"p","r","i","s","o","n">>, <<"t","a","u","l","e">>,
      <<"c","e","l","l","u","l","e">>, <<"g","a","n","g">>,
      <<"b","a","n","d","e">>, <<"c","r","e","w">>,
      <<"e'","q","u","i","p","e">>, <<"f","r","e!","r","e","s">>,
      <<"g","a","r","s">>, <<"m","e","c","s">>},
     \* money
     {<<"a","r","g","e","n","t">>, <<"b","i","l","l","e","t">>,
      <<"e","u","r","o">>, <<"l","i","a","s","s","e">>, <<"c","a","s","h">>,
      <<"t","h","u","n","e">>, <<"o","s","e","i","l","l","e">>,
      <<"f","r","i","c">>, <<"b","l","e'">>, <<"m","o","n","e","y">>,
      <<"f","o","r","t","u","n","e">>, <<"r","i","c","h","e">>,
      <<"m","i","l","l","i","o","n","n","a","i","r","e">>,
      <<"b","u","s","i","n","e","s","s">>, <<"h","u","s","t","l","e">>,
      <<"g","r","i","n","d">>, <<"t","r","a","v","a","i","l">>,
      <<"e","n","t","r","e","p","r","i","s","e">>, <<"r","o","l","e","x">>,
      <<"m","e","r","c","e","d","e","s">>, <<"b","m","w">>,
      <<"l","u","x","e">>, <<"c","h","a","i^","n","e">>,
      <<"d","i","a","m","a","n","t">>},
     \* love
     {<<"a","m","o","u","r">>, <<"c","oe&","u","r">>,
      <<"a","i","m","e","r">>, <<"f","e","m","m","e">>,
      <<"f","i","l","l","e">>, <<"b","e","l","l","e">>,
      <<"b","e","a","u","t","e'">>, <<"s","e","n","t","i","m","e","n","t">>,
      <<"r","e","l","a","t","i","o","n">>, <<"c","o","u","p","l","e">>,
      <<"m","a","r","i","a","g","e">>, <<"f","a","m","i","l","l","e">>,
      <<"m","a","m","a","n">>, <<"m","e!","r","e">>, <<"p","e!","r","e">>,
      <<"e","n","f","a","n","t">>, <<"f","i","l","s">>,
      <<"f","i","l","l","e">>, <<"t","r","a","h","i","s","o","n">>,
      <<"m","e","n","s","o","n","g","e">>,
      <<"t","r","o","m","p","e","r","i","e">>,
      <<"r","u","p","t","u","r","e">>,
      <<"s","e'","p","a","r","a","t","i","o","n">>},
     \* party
     {<<"f","e^","t","e">>, <<"d","a","n","s","e">>,
      <<"d","a","n","s","e","r">>, <<"c","l","u","b">>, <<"n","u","i","t">>,
      <<"b","o","u","t","e","i","l","l","e">>,
      <<"c","h","a","m","p","a","g","n","e">>, <<"a","l","c","o","o","l">>,
      <<"v","o","d","k","a">>, <<"h","e","n","n","e","s","s","y">>,
      <<"w","h","i","s","k","y">>, <<"b","o","i","r","e">>,
      <<"i","v","r","e">>, <<"a","m","b","i","a","n","c","e">>,
      <<"s","o","i","r","e'","e">>, <<"m","u","s","i","q","u","e">>,
      <<"d","j">>, <<"b","o","i^","t","e">>,
      <<"d","i","s","c","o","t","h","e!","q","u","e">>},
     \* conscious
     {<<"s","o","c","i","e'","t","e'">>,
      <<"p","o","l","i","t","i","q","u","e">>,
      <<"s","y","s","t","e!","m","e">>, <<"j","u","s","t","i","c","e">>,
      <<"i","n","j","u","s","t","i","c","e">>, <<"p","o","l","i","c","e">>,
      <<"r","a","c","i","s","m","e">>,
      <<"d","i","s","c","r","i","m","i","n","a","t","i","o","n">>,
      <<"m","e'","d","i","a">>, <<"m","e","n","s","o","n","g","e">>,
      <<"v","e'","r","i","t","e'">>, <<"p","e","u","p","l","e">>,
      <<"r","e'","v","o","l","u","t","i","o","n">>,
      <<"c","o","m","b","a","t">>, <<"l","u","t","t","e">>,
      <<"r","e'","s","i","s","t","a","n","c","e">>,
      <<"e'","d","u","c","a","t","i","o","n">>, <<"e'","c","o","l","e">>,
      <<"h","i","s","t","o","i","r","e">>, <<"f","r","a","n","c","e">>,
      <<"b","a","n","l","i","e","u","e">>},
     \* spiritual
     {<<"d","i","e","u">>, <<"a","l","l","a","h">>,
      <<"p","r","i","e!","r","e">>, <<"p","r","i","e","r">>, <<"f","o","i">>,
      <<"c","r","o","i","r","e">>, <<"r","e","l","i","g","i","o","n">>,
      <<"a^","m","e">>, <<"e","s","p","r","i","t">>,
      <<"d","e","s","t","i","n">>, <<"k","a","r","m","a">>,
      <<"p","a","r","a","d","i","s">>, <<"e","n","f","e","r">>,
      <<"m","o","r","t">>, <<"v","i","e">>, <<"e'","t","e","r","n","e","l">>,
      <<"b","e'","n","e'","d","i","c","t","i","o","n">>,
      <<"m","i","r","a","c","l","e">>},
     \* ego
     {<<"r","o","i">>, <<"b","o","s","s">>, <<"p","a","t","r","o","n">>,
      <<"n","u","m","e'","r","o"," ","u","n">>,
      <<"m","e","i","l","l","e","u","r">>, <<"l","e'","g","e","n","d","e">>,
      <<"g","o","a","t">>, <<"f","i","r","s","t">>, <<"t","o","p">>,
      <<"c","h","a","m","p","i","o","n">>,
      <<"v","i","c","t","o","i","r","e">>, <<"s","u","c","c","e!","s">>,
      <<"r","e","s","p","e","c","t">>,
      <<"r","e'","p","u","t","a","t","i","o","n">>, <<"n","o","m">>,
      <<"l","e","g","a","c","y">>, <<"h","i","s","t","o","i","r","e">>,
      <<"h","a","t","e","r","s">>, <<"j","a","l","o","u","x">>,
      <<"e","n","v","i","e","u","x">>, <<"e","n","n","e","m","i","s">>,
      <<"c","l","a","s","h">>}>>

RECURSIVE FloorLog2(_)
FloorLog2(n) == IF n < 2 THEN 0 ELSE 1 + FloorLog2(n \div 2)

RECURSIVE Pow2(_)
Pow2(k) == IF k = 0 THEN 1 ELSE 2 * Pow2(k - 1)

\* the first k binary digits of log2(x / 2^14) for x / 2^14 in [1, 2)
RECURSIVE Log2Digits(_, _)
Log2Digits(x, k) ==
    IF k = 0 THEN 0
    ELSE IF (x * x) \div 16384 >= 32768
         THEN Pow2(k - 1) + Log2Digits((x * x) \div 32768, k - 1)
         ELSE Log2Digits((x * x) \div 16384, k - 1)

\* math.log2(n) of an integer n in 1..100000, in units of 1/1000
Log2(n) ==
    FloorLog2(n) * 1000
    + (Log2Digits((n * 16384) \div Pow2(FloorLog2(n)), 10) * 1000) \div 1024

ZeroThemes    == [counts |-> [t \in 1..Len(THEME_KEYWORDS) |-> 0], total |-> 1]
UniformThemes == [counts |-> [t \in 1..Len(THEME_KEYWORDS) |-> 1],
                  total |-> Len(THEME_KEYWORDS)]

\* detect_themes
DetectThemes(text) ==
    IF text = EmptyText THEN ZeroThemes
    ELSE
    LET Weights(words) ==
            IF Len(words) < 100 THEN ZeroThemes
            ELSE
            LET Normalized(theme_counts) ==
                    IF SumSeq(theme_counts) = 0 THEN UniformThemes
                    ELSE [counts |-> theme_counts, total |-> SumSeq(theme_counts)]
            IN  Normalized(Eager([t \in 1..Len(THEME_KEYWORDS) |->
                    Cardinality({i \in 1..Len(words) : words[i] \in THEME_KEYWORDS[t]})]))
    IN  Weights(Split(FilterFrenchText(Eager(Lower(TextChars(text))))))

\* calculate_entropy, in units of 1/1000:
\* -sum(w * log2(w)) over the weights w = c / total above 0, by log2(len)
CalculateEntropy(distribution) ==
    LET entropy ==
            SumSeq([t \in 1..Len(distribution.counts) |->
                IF distribution.counts[t] > 0
                THEN (distribution.counts[t]
                      * (Log2(distribution.total) - Log2(distribution.counts[t])))
                     \div distribution.total
                ELSE 0])
        max_entropy == Log2(Len(distribution.counts))
    IN  IF max_entropy > 0 THEN (entropy * 1000) \div max_entropy ELSE 0

\* calculate_coherence_score
CalculateCoherenceScore(text) ==
    LET Metrics(theme_distribution) ==
            LET top == SetMax(Range(theme_distribution.counts))
                dominant == SetMin({t \in 1..Len(THEME_NAMES) :
                                        theme_distribution.counts[t] = top})
                Scored(dominant_weight, entropy) ==
                    [dominant_theme        |-> THEME_NAMES[dominant],
                     dominant_theme_weight |-> dominant_weight,
                     theme_entropy         |-> entropy,
                     \* coherence = dominant_weight * 100 * (1 - entropy * 0.5)
                     coherence_score |->
                        Min(100000, Max(0, 2 * ((dominant_weight * 100
                                                 * (1000 - entropy \div 2)) \div 1000)))]
            IN  Scored((top * 1000) \div theme_distribution.total,
                       CalculateEntropy(theme_distribution))
    IN  Metrics(DetectThemes(text))

-----------------------------------------------------------------------------
(* collectors/awards_collector.py: ArtistAwards and AwardsCollector        *)
(*                                                                         *)
(* An ArtistAwards is the record [awards, certifications]: the award_type  *)
(* of each award (every Award keeps the default weight 1.0) and the level  *)
(* of each certification.                                                  *)

\* the weight of a certification by its level
CERT_WEIGHTS ==
    [diamond |-> 8, platinum |-> 4, gold |-> 2, silver |-> 1]

\* the weight of an award by its award_type
AWARD_WEIGHTS ==
    [victoire |-> 10, nrj |-> 5, mtv |-> 4, other |-> 3]

\* the award_type of each known award of an artist
KNOWN_AWARDS ==
       "booba" :> <<"victoire", "victoire", "nrj", "nrj">>
    @@ "pnl" :> <<"victoire", "victoire">>
    @@ "iam" :> <<"victoire", "victoire", "victoire">>
    @@ "nekfeu" :> <<"victoire", "victoire">>
    @@ "sch" :> <<"victoire", "nrj">>
    @@ "damso" :> <<"victoire", "other", "other">>
    @@ "jul" :> <<"nrj", "nrj", "other", "other", "other">>
    @@ "ninho" :> <<"victoire", "nrj", "nrj">>
    @@ "kery james" :> <<"victoire", "victoire">>
    @@ "mc solaar" :> <<"victoire", "victoire", "victoire", "victoire">>
    @@ "ntm" :> <<"victoire">>
    @@ "oxmo puccino" :> <<"victoire", "victoire">>
    @@ "soprano" :> <<"nrj", "nrj", "nrj", "victoire">>
    @@ "freeze corleone" :> <<>>
    @@ "kaaris" :> <<"other">>
    @@ "maes" :> <<"nrj">>
    @@ "gazo" :> <<"victoire">>
    @@ "vald" :> <<"victoire">>
    @@ "me'dine" :> <<>>
    @@ "youssoupha" :> <<"other", "other">>

\* the level of each known certification of an artist
KNOWN_CERTIFICATIONS ==
       "jul" :> <<"diamond", "diamond", "diamond", "diamond", "diamond", "diamond", "platinum", "platinum", "diamond", "diamond">>
    @@ "booba" :> <<"diamond", "diamond", "platinum", "diamond", "diamond", "diamond", "diamond", "platinum">>
    @@ "pnl" :> <<"diamond", "diamond", "diamond", "diamond">>
    @@ "ninho" :> <<"diamond", "diamond", "diamond", "diamond">>
    @@ "nekfeu" :> <<"diamond", "platinum", "diamond">>
    @@ "sch" :> <<"platinum", "platinum", "diamond", "diamond", "platinum">>
    @@ "damso" :> <<"platinum", "diamond", "diamond", "diamond">>
    @@ "iam" :> <<"diamond", "platinum", "platinum">>
    @@ "mc solaar" :> <<"platinum", "diamond", "platinum", "platinum">>
    @@ "kery james" :> <<"gold", "gold">>
    @@ "soprano" :> <<"platinum", "diamond", "diamond", "platinum">>
    @@ "maes" :> <<"diamond", "platinum", "diamond">>
    @@ "gazo" :> <<"platinum", "platinum">>
    @@ "freeze corleone" :> <<"platinum">>
    @@ "kaaris" :> <<"diamond", "platinum", "platinum">>
    @@ "la fouine" :> <<"platinum", "platinum", "platinum", "platinum", "platinum">>
    @@ "lacrim" :> <<"platinum", "platinum", "platinum">>
    @@ "ntm" :> <<"platinum", "diamond", "platinum">>
    @@ "oxmo puccino" :> <<"gold", "gold">>
    @@ "vald" :> <<"diamond", "platinum", "platinum">>

\* AwardsCollector.get_artist_awards: the known data of artist_name.lower().strip()
GetArtistAwards(artist_name) ==
    LET Loaded(key) == [awards         |-> Get(KNOWN_AWARDS, key, <<>>),
                        certifications |-> Get(KNOWN_CERTIFICATIONS, key, <<>>)]
    IN  Loaded(TableKey(Strip(Lower(artist_name))))

\* ArtistAwards.weighted_awards_score
WeightedAwardsScore(self) ==
    SumSeq([i \in 1..Len(self.awards) |-> Get(AWARD_WEIGHTS, self.awards[i], 3)])

\* ArtistAwards.weighted_certifications_score
WeightedCertificationsScore(self) ==
    SumSeq([i \in 1..Len(self.certifications) |->
                Get(CERT_WEIGHTS, self.certifications[i], 1)])

\* ArtistAwards.to_dict, without the names and the years
ArtistAwardsToDict(self) ==
    [total_awards                  |-> Len(self.awards),
     total_certifications          |-> Len(self.certifications),
     weighted_awards_score         |-> WeightedAwardsScore(self),
     weighted_certifications_score |-> WeightedCertificationsScore(self),
     \* calculate_influence_score(): int(min(100, raw_score / 200 * 100))
     influence_score |-> Min(100, ((WeightedAwardsScore(self)
                                    + WeightedCertificationsScore(self)) * 100) \div 200)]

-----------------------------------------------------------------------------
(* scripts/migrate_to_objective.py                                         *)
(*                                                                         *)
(* A dict keyed by artist_id is a sequence of <<artist_id, value>> pairs,  *)
(* as the corpus is.  An artist is the record [id, name, metrics].         *)

METRICS == <<"innovation", "integrity", "influence", "thematic", "peak">>

\* the fields a to_dict() rounds to two decimals
ROUNDED_FIELDS ==
    {"style_uniqueness", "vocabulary_distinctiveness", "first_mover_score",
     "genre_fusion_score", "consistency_score", "independence_score",
     "trend_resistance", "feature_selectivity", "wikipedia_score", "awards_score",
     "citation_score", "charts_efficiency", "peak_album_score",
     "classic_tracks_score", "coherence_score", "total_score"}

\* round(x, 2) of a value in units of 1/1000
Round2(x) == ((x + 5) \div 10) * 10

\* the to_dict() of the five metrics classes, without the artist_id
ToDict(metrics) ==
    [k \in DOMAIN metrics |-> IF k \in ROUNDED_FIELDS THEN Round2(metrics[k]) ELSE metrics[k]]

\* d.get(key): <<>> for None
Lookup(d, key) ==
    LET Hits == {i \in 1..Len(d) : d[i][1] = key}
    IN  IF Hits = {} THEN <<>> ELSE <<d[SetMax(Hits)][2]>>

\* d[key] = value
Put(d, key, value) ==
    IF \E i \in 1..Len(d) : d[i][1] = key
    THEN [i \in 1..Len(d) |-> IF d[i][1] = key THEN <<key, value>> ELSE d[i]]
    ELSE Append(d, <<key, value>>)

\* all_lyrics.get(artist_id, "")
LyricsOf(all_lyrics, artist_id) ==
    IF Lookup(all_lyrics, artist_id) = <<>> THEN EmptyText
    ELSE Lookup(all_lyrics, artist_id)[1]

\* what an except clause of compute_all_scores records for the metric
Fallback(metric) ==
    IF metric = "thematic" THEN [coherence_score |-> 50000] ELSE [total_score |-> 50000]

\* the tokenizer and the library as the Integrity analyzer finds them
NlpOf(env, text) ==
    [SKLEARN_AVAILABLE |-> env.SKLEARN_AVAILABLE, lemmas |-> TextWordCount(text),
     fit_raises |-> env.fit_raises, avg_similarity |-> env.cosine.centroid]

\* the five analyzer calls of one turn of the loop, none raising
Computed(self, env, artist_id, all_lyrics, wiki_data, awards_data) ==
    LET Results(text, innovation) ==
            [self |-> innovation.self,
             result |->
                [innovation |-> ToDict(innovation.value),
                 integrity  |-> ToDict(CalculateIntegrityScore(artist_id, text,
                                                               NlpOf(env, text))),
                 influence  |-> ToDict(CalculateInfluenceScore(
                                    artist_id, Lookup(wiki_data, artist_id),
                                    Lookup(awards_data, artist_id), all_lyrics)),
                 thematic   |-> ToDict(CalculateCoherenceScore(text)),
                 peak       |-> ToDict(CalculatePeakScore(artist_id))]]
        Called(text) ==
            Results(text, CalculateInnovationScore(self, env, artist_id, text, all_lyrics))
    IN  Called(LyricsOf(all_lyrics, artist_id))

\* one turn of the loop in which a raise ends the turn: the metrics from
\* the first raising call on are not computed
ArtistScores_RaiseEndsTurn(self, computed, raised) ==
    [self |-> IF "innovation" \in raised THEN self ELSE computed.self,
     result |-> [m \in Range(METRICS) |->
                    IF \E i, j \in 1..Len(METRICS) :
                           i <= j /\ METRICS[j] = m /\ METRICS[i] \in raised
                    THEN Fallback(m) ELSE computed.result[m]]]

\* one turn of the loop of compute_all_scores on the analyzer self: each
\* analyzer call in its own try, the calls of the set raised raising on
\* entry, the others returning what computed holds
ArtistScores(self, computed, raised) ==
    [self |-> IF "innovation" \in raised THEN self ELSE computed.self,
     result |-> [m \in Range(METRICS) |->
                    IF m \in raised THEN Fallback(m) ELSE computed.result[m]]]

\* int(x) of a value in units of 1/1000, none negative
ToInt(x) == x \div 1000

\* the key of the score of a metric in its dict
ScoreKey(metric) == IF metric = "thematic" THEN "coherence_score" ELSE "total_score"

\* the field of artist["metrics"] a metric is stored in
METRIC_FIELDS ==
    [innovation |-> "innovationScore", integrity |-> "artisticIntegrity",
     influence |-> "influenceScore", thematic |-> "thematicCoherence",
     peak |-> "peakAlbumScore"]

\* the metrics update_artists_json stores for one artist whose scores are entry
UpdatedMetrics(entry) ==
    [innovationScore   |-> ToInt(entry.innovation.total_score),
     artisticIntegrity |-> ToInt(entry.integrity.total_score),
     influenceScore    |-> ToInt(entry.influence.total_score),
     thematicCoherence |-> ToInt(entry.thematic.coherence_score),
     peakAlbumScore    |-> ToInt(entry.peak.total_score)]

\* update_artists_json: the artists with the metrics of their scores
UpdateArtists(artist_list, score_map) ==
    [i \in 1..Len(artist_list) |->
        IF Lookup(score_map, artist_list[i].id) = <<>> THEN artist_list[i]
        ELSE [artist_list[i] EXCEPT
                 !.metrics = UpdatedMetrics(Lookup(score_map, artist_list[i].id)[1])]]

-----------------------------------------------------------------------------
(* Rhyme checks on a pair of words                                         *)

MaxWordLen == 3
PhonAlphabet == {"a", "e", "n", "t"}
PhonWords == SeqsBetween(PhonAlphabet, 0, MaxWordLen)

BoolStr(b) == IF b THEN "true" ELSE "false"
NoRhyme == [s \in 1..3 |-> "none"]
NoResult == [fn |-> "none"]

PhonIdle  == word1 = <<>> /\ word2 = <<>> /\ rhyme = NoRhyme
TextIdle  == lyrics = EmptyText /\ result = NoResult
BrandIdle == original = EmptyText /\ previous = NoResult
ArtistIdle == artist = <<>>
InnovIdle ==
    /\ corpus = <<>>
    /\ library = None
    /\ analyzer = None
    /\ reference = None
    /\ batch = None
    /\ history = <<>>
    /\ calls = None
NoExternal == [wiki_data |-> <<>>, awards_data |-> <<>>]
NoRun == [phase |-> "none", pending |-> <<>>, raised |-> {}]
MigrateIdle == artists = <<>> /\ external = NoExternal /\ scores = <<>> /\ run = NoRun
StoreIdle == db = None /\ journal = None /\ pipeline = None /\ artists_json = None

PhonInit ==
    /\ word1 \in PhonWords
    /\ word2 \in PhonWords
    /\ rhyme = NoRhyme
    /\ TextIdle
    /\ BrandIdle
    /\ ArtistIdle
    /\ InnovIdle
    /\ MigrateIdle
    /\ StoreIdle

\* one call rhymes_with(word1, word2, s)
CallRhymesWith(s) ==
    /\ rhyme[s] = "none"
    /\ rhyme' = [rhyme EXCEPT ![s] = BoolStr(RhymesWith(word1, word2, s))]
    /\ UNCHANGED <<word1, word2, textVars, brandVars, artistVars, innovVars, migrateVars, storeVars>>

PhonNext == \E s \in 1..3 : CallRhymesWith(s)

SpecPhon == PhonInit /\ [][PhonNext]_vars

\* C3: a pair that rhymes at strictness 3 rhymes at strictness 2 and 1
C3_RhymeMonotone ==
    rhyme[3] = "true" => rhyme[2] # "false" /\ rhyme[1] # "false"

-----------------------------------------------------------------------------
(* The text analyzers on one text                                          *)

MaxLines == 5

LINE_SHORT   == <<"a", "a", "y", "eu">>
LINE_PUNCH   == <<"mais", "moi", "Mandela", "comme", "un", "roi",
                  "la", "vie", "est", "la", "mort">>
LineChoices == {<<>>, <<" ">>, LINE_SHORT, LINE_PUNCH}
Texts == SeqsBetween(LineChoices, 1, MaxLines)

TextInit ==
    /\ lyrics \in Texts
    /\ result = NoResult
    /\ PhonIdle
    /\ BrandIdle
    /\ ArtistIdle
    /\ InnovIdle
    /\ MigrateIdle
    /\ StoreIdle

\* one call of a function of the text analyzers on the text
Call(fn, value) ==
    /\ result = NoResult
    /\ result' = [fn |-> fn, value |-> value]
    /\ UNCHANGED <<phonVars, lyrics, brandVars, artistVars, innovVars, migrateVars, storeVars>>

CallCalculateFlowScore      == Call("calculate_flow_score", CalculateFlowScore(lyrics))
CallCalculateFlowMetrics    == Call("calculate_flow_metrics", CalculateFlowMetrics(lyrics))
CallCalculateHookScore      == Call("calculate_hook_score", CalculateHookScore(lyrics))
CallCalculateHookMetrics    == Call("calculate_hook_metrics", CalculateHookMetrics(lyrics))
CallCalculatePunchlineScore == Call("calculate_punchline_score", CalculatePunchlineScore(lyrics))
CallCalculatePunchlineMetrics ==
    Call("calculate_punchline_metrics", CalculatePunchlineMetrics(lyrics))

TextNext ==
    \/ CallCalculateFlowScore
    \/ CallCalculateFlowMetrics
    \/ CallCalculateHookScore
    \/ CallCalculateHookMetrics
    \/ CallCalculatePunchlineScore
    \/ CallCalculatePunchlineMetrics

SpecText == TextInit /\ [][TextNext]_vars

SCORE_FUNCTIONS ==
    {"calculate_flow_score", "calculate_hook_score", "calculate_punchline_score"}
METRICS_FUNCTIONS ==
    {"calculate_flow_metrics", "calculate_hook_metrics", "calculate_punchline_metrics"}

\* the record holds 0 in every number and FALSE in chorus_detected
IsZeroRecord(r) ==
    \A k \in DOMAIN r : IF k = "chorus_detected" THEN r[k] = FALSE ELSE r[k] = 0

\* C2: on a text of fewer than 4 non-empty lines (the empty and the white
\* space text included) every score function returns 0 and every metrics
\* function returns its record of zeros
C2_ZeroState ==
    (IsBlankText(lyrics) \/ Len(NonEmptyLines(lyrics)) < 4) =>
        /\ result.fn \in SCORE_FUNCTIONS => result.value = 0
        /\ result.fn \in METRICS_FUNCTIONS => IsZeroRecord(result.value)

\* three lines of words among five lines, and the Hook metrics returned
C2_Witness ==
    /\ Len(lyrics) = 5
    /\ Len(NonEmptyLines(lyrics)) = 3
    /\ result.fn = "calculate_hook_metrics"
    /\ IsZeroRecord(result.value)

SUB_SCORES ==
    {"rhyme_density", "internal_rhymes", "syllable_variation", "multisyllabic_rhymes",
     "repetition", "catchiness", "rhythm_regularity", "brevity",
     "rhetorical_devices", "wordplay", "paradox_philosophy", "cultural_refs"}

\* C8: on a text of at least 4 non-empty lines each of the twelve sub-scores
\* of the Flow, Hook and Punchline metrics lies in [0, 1]
C8_SubScoresInRange ==
    (Len(NonEmptyLines(lyrics)) >= 4 /\ result.fn \in METRICS_FUNCTIONS) =>
        \A k \in DOMAIN result.value \cap SUB_SCORES :
            result.value[k] >= 0 /\ result.value[k] <= 1000

-----------------------------------------------------------------------------
(* One more brand mention in a text                                        *)

MaxFill == 3
MaxOffset == 1

LINE_REF    == <<"Mandela", "est", "mort", "tout", "est", "strict">>
LINE_FILL   == <<"je", "suis", "le", "roi", "la", "vie", "on", "va">>
LINE_FILL7  == <<"je", "suis", "le", "roi", "la", "vie", "on">>
LINE_BRAND8 == <<"Louis", "Vuitton", "je", "suis", "le", "roi", "la", "vie">>
LINE_BRAND9 == <<"Louis", "Vuitton", "je", "suis", "le", "roi", "la", "vie", "on">>

\* a first line, 0..MaxFill lines of eight plain words, a last line
BrandTexts ==
    {<<first>> \o [i \in 1..k |-> LINE_FILL] \o <<last>> :
        first \in {LINE_REF, LINE_FILL},
        k \in 0..MaxFill,
        last \in {LINE_FILL7, LINE_BRAND8, LINE_BRAND9}}
    \cup {EmptyText, <<LINE_REF>>, <<LINE_REF, <<>>, LINE_FILL>>}

BRAND_MENTIONS == {<<"Gucci">>, <<"Louis", "Vuitton">>, <<"Richard", "Mille">>}

InsertAt(s, k, xs) == SubSeq(s, 1, k) \o xs \o SubSeq(s, k + 1, Len(s))

\* the places of a line where a mention goes in: after its first 0..MaxOffset
\* words and at its end
InsertOffsets(line) == (0..Min(MaxOffset, Len(line))) \cup {Len(line)}

BrandInit ==
    /\ lyrics \in BrandTexts
    /\ result = NoResult
    /\ BrandIdle
    /\ PhonIdle
    /\ ArtistIdle
    /\ InnovIdle
    /\ MigrateIdle
    /\ StoreIdle

\* _calculate_cultural_hijacking(lyrics, lines), lines as
\* calculate_punchline_metrics hands them over
CallCulturalHijacking ==
    Call("_calculate_cultural_hijacking",
         CulturalHijacking(lyrics, NonEmptyLines(lyrics)))

\* the caller adds one brand mention to the text it has a result for, inside
\* a line or as a line of its own, and leaves the rest of the text alone
InsertBrand ==
    /\ result # NoResult
    /\ previous = NoResult
    /\ \E brand \in BRAND_MENTIONS :
        \/ \E i \in 1..Len(lyrics) : \E k \in InsertOffsets(lyrics[i]) :
              lyrics' = [lyrics EXCEPT ![i] = InsertAt(lyrics[i], k, brand)]
        \/ \E i \in 0..Len(lyrics) :
              lyrics' = InsertAt(lyrics, i, <<brand>>)
    /\ original' = lyrics
    /\ previous' = result
    /\ result' = NoResult
    /\ UNCHANGED <<phonVars, artistVars, innovVars, migrateVars, storeVars>>

BrandNext ==
    \/ CallCulturalHijacking
    \/ InsertBrand

SpecBrand == BrandInit /\ [][BrandNext]_vars

\* C6: when the insertion of a brand mention into a text raises the count
\* of brand mentions of the text, the cultural-reference value of the new
\* text is not above the value of the original text
C6_BrandMonotone ==
    (/\ previous # NoResult
     /\ result # NoResult
     /\ BrandCount(lyrics) > BrandCount(original)) =>
        FracLeq(result.value, previous.value)

\* a first mention brings the value from 1 down to a value strictly
\* between 0 and 1
C6_Witness ==
    /\ previous # NoResult
    /\ result # NoResult
    /\ BrandCount(original) = 0
    /\ BrandCount(lyrics) = 1
    /\ previous.value = <<1, 1>>
    /\ result.value[1] > 0
    /\ ~FracLeq(previous.value, result.value)

-----------------------------------------------------------------------------
(* The table-driven components on one artist identifier                    *)

UpperChar(c) ==
    IF \E i \in 1..26 : LOWERCASE[i] = c
    THEN UPPERCASE[CHOOSE i \in 1..26 : LOWERCASE[i] = c]
    ELSE c
Upper(s) == [i \in 1..Len(s) |-> UpperChar(s[i])]
Joined(s, c) == [i \in 1..Len(s) |-> IF s[i] = " " THEN c ELSE s[i]]

\* every key of the tables as it stands, in capitals, and with its blanks
\* written '-' or '_'
Variants(k) ==
    {ARTIST_SPELLING[k], Upper(ARTIST_SPELLING[k]),
     Joined(ARTIST_SPELLING[k], "-"), Joined(Upper(ARTIST_SPELLING[k]), "_")}
KNOWN_IDS == UNION {Variants(k) : k \in DOMAIN ARTIST_SPELLING}

\* identifiers that spell no key: the empty one, a stranger, a key with a
\* blank too many, a key cut in two, a key with a dot for its blank
UNKNOWN_IDS ==
    {<<>>,
     <<"o","r","e","l","s","a","n">>,
     <<"O","r","e","l","_","S","a","n">>,
     <<"b","o","o","b","a"," ">>,
     <<"b","o","o","-","b","a">>,
     <<"k","e","r","y",".","j","a","m","e","s">>,
     <<"j","u","l","_">>}

ArtistIds == KNOWN_IDS \cup UNKNOWN_IDS

ArtistInit ==
    /\ artist \in ArtistIds
    /\ result = NoResult
    /\ lyrics = EmptyText
    /\ PhonIdle
    /\ BrandIdle
    /\ InnovIdle
    /\ MigrateIdle
    /\ StoreIdle

CallCalculateFirstMoverScore ==
    Call("calculate_first_mover_score", CalculateFirstMoverScore(artist))
CallCalculateChartsEfficiency ==
    Call("calculate_charts_efficiency", CalculateChartsEfficiency(artist))
CallCalculateIndependence ==
    Call("calculate_independence", CalculateIndependence(artist))
CallCalculateFeatureSelectivity ==
    Call("calculate_feature_selectivity", CalculateFeatureSelectivity(artist))
CallCalculatePeakAlbumScore ==
    Call("calculate_peak_album_score", CalculatePeakAlbumScore(artist))
CallCalculateClassicTracksScore ==
    Call("calculate_classic_tracks_score", CalculateClassicTracksScore(artist))
CallCalculatePeakScore ==
    Call("calculate_peak_score", CalculatePeakScore(artist))

ArtistNext ==
    \/ CallCalculateFirstMoverScore
    \/ CallCalculateChartsEfficiency
    \/ CallCalculateIndependence
    \/ CallCalculateFeatureSelectivity
    \/ CallCalculatePeakAlbumScore
    \/ CallCalculateClassicTracksScore
    \/ CallCalculatePeakScore

SpecArtist == ArtistInit /\ [][ArtistNext]_vars

\* the component called, on the identifier as its table key is written
OnKey(fn, key) ==
    CASE fn = "calculate_first_mover_score"    -> CalculateFirstMoverScore(key)
      [] fn = "calculate_charts_efficiency"    -> CalculateChartsEfficiency(key)
      [] fn = "calculate_independence"         -> CalculateIndependence(key)
      [] fn = "calculate_feature_selectivity"  -> CalculateFeatureSelectivity(key)
      [] fn = "calculate_peak_album_score"     -> CalculatePeakAlbumScore(key)
      [] fn = "calculate_classic_tracks_score" -> CalculateClassicTracksScore(key)
      [] fn = "calculate_peak_score"           -> CalculatePeakScore(key)

UNKNOWN_DEFAULTS ==
       "calculate_first_mover_score" :> 30000
    @@ "calculate_charts_efficiency" :> 40000
    @@ "calculate_independence"      :> 50000
    @@ "calculate_peak_album_score"  :> 50000

\* C9: an identifier that spells no table key gets first-mover 30.0, charts
\* efficiency 40.0, independence 50.0, peak-album 50.0 and 5 classic tracks;
\* an identifier that is a key in capitals, or a key with '-' or '_' for its
\* blanks, gets what the key itself gets
C9_UnknownDefaults ==
    result # NoResult =>
        /\ artist \in UNKNOWN_IDS =>
            /\ result.fn \in DOMAIN UNKNOWN_DEFAULTS =>
                    result.value = UNKNOWN_DEFAULTS[result.fn]
            /\ result.fn = "calculate_classic_tracks_score" => result.value[1] = 5
        /\ \A k \in DOMAIN ARTIST_SPELLING :
                artist \in Variants(k) =>
                    result.value = OnKey(result.fn, ARTIST_SPELLING[k])

\* the classic tracks of a stranger whose identifier holds capitals and '_'
C9_Witness ==
    /\ artist = <<"O","r","e","l","_","S","a","n">>
    /\ result.fn = "calculate_classic_tracks_score"
    /\ result.value = <<5, 16666>>

-----------------------------------------------------------------------------
(* One Innovation analyzer on a corpus                                     *)
(*                                                                         *)
(* The analyzer is called on artists of the corpus and on a stranger, or   *)
(* runs one batch (analyze_all_artists, or the Innovation part of          *)
(* compute_all_scores) from its fresh state.  reference is a second        *)
(* analyzer that gets the same calls with a library that works.            *)

MaxArtists == 3
MaxCalls == 2

CORPUS_IDS ==
    << <<"b","o","o","b","a">>,
       <<"K","e","r","y","_","J","a","m","e","s">>,
       <<"o","r","e","l","s","a","n">> >>
CorpusId(i) == IF i <= Len(CORPUS_IDS) THEN CORPUS_IDS[i] ELSE [j \in 1..i |-> "x"]
STRANGER == <<"z","o","l","a">>

LYRICS_REPEATED == << <<"rue", "rue", "la", "la">> >>
LYRICS_ONCE     == << <<"dieu", "foi">> >>
LYRICS_MIXED    == << <<"rue", "la", "wallah">> >>
LyricsChoices == {EmptyText, LYRICS_REPEATED, LYRICS_ONCE, LYRICS_MIXED}

Corpora ==
    UNION {{[i \in 1..n |-> <<CorpusId(i), choice[i]>>] : choice \in [1..n -> LyricsChoices]} :
           n \in 0..MaxArtists}

\* what cosine_similarity returns for an artist against the centroid and
\* against the nearest other artist; rounding can carry it past 1
COSINES ==
    {[centroid |-> 0, neighbor |-> 0],
     [centroid |-> 500, neighbor |-> 900],
     [centroid |-> 1001, neighbor |-> 1001]}

Envs ==
    {[SKLEARN_AVAILABLE |-> lib[1], fit_raises |-> lib[2], cosine |-> cosine] :
        lib \in {<<FALSE, FALSE>>, <<TRUE, TRUE>>, <<TRUE, FALSE>>}, cosine \in COSINES}

\* the library of the reference analyzer: imported, and the fit succeeds
Working(e) == [e EXCEPT !.SKLEARN_AVAILABLE = TRUE, !.fit_raises = FALSE]

NoBatch == [kind |-> "none", pending |-> <<>>]
NoCalls == [fit_attempts |-> 0, vocab_builds |-> 0]

InnovInit ==
    /\ corpus \in Corpora
    /\ library \in Envs
    /\ analyzer = NewAnalyzer
    /\ reference = NewAnalyzer
    /\ batch = NoBatch
    /\ history = <<>>
    /\ calls = NoCalls
    /\ PhonIdle
    /\ TextIdle
    /\ BrandIdle
    /\ ArtistIdle
    /\ MigrateIdle
    /\ StoreIdle

\* 1 when the call built the corpus vocabulary
VocabBuilds(before, after) ==
    IF before.corpus_vocab = NoVocab /\ after.corpus_vocab # NoVocab THEN 1 ELSE 0

\* the state after one call that left the analyzers own and ref
Returned(fn, artist_id, text, own, ref, fits) ==
    /\ analyzer' = own.self
    /\ reference' = ref.self
    /\ history' = Append(history, [fn |-> fn, artist_id |-> artist_id, lyrics |-> text,
                                   value |-> own.value, reference |-> ref.value])
    /\ calls' = [fit_attempts |-> calls.fit_attempts + fits,
                 vocab_builds |-> calls.vocab_builds + VocabBuilds(analyzer, own.self)]

\* the arguments of a call: an artist of the corpus with its lyrics, or a
\* stranger
CallArgs == Range(corpus) \cup {<<STRANGER, LYRICS_ONCE>>}

\* calculate_vocabulary_distinctiveness(lyrics, corpus, artist_id)
CallCalculateVocabularyDistinctiveness ==
    /\ batch = NoBatch
    /\ Len(history) < MaxCalls
    /\ \E args \in CallArgs :
        Returned("calculate_vocabulary_distinctiveness", args[1], args[2],
                 CalculateVocabularyDistinctiveness(analyzer, args[2], corpus, args[1]),
                 CalculateVocabularyDistinctiveness(reference, args[2], corpus, args[1]),
                 0)
    /\ UNCHANGED <<corpus, library, batch>>
    /\ UNCHANGED <<phonVars, textVars, brandVars, artistVars, migrateVars, storeVars>>

\* one call of calculate_innovation_score on both analyzers
Scored(artist_id, text) ==
    LET Both(own, ref) ==
            Returned("calculate_innovation_score", artist_id, text, own, ref, own.fit_attempts)
    IN  Both(CalculateInnovationScore(analyzer, library, artist_id, text, corpus),
             CalculateInnovationScore(reference, Working(library), artist_id, text, corpus))

\* calculate_innovation_score(artist_id, lyrics, corpus)
CallCalculateInnovationScore ==
    /\ batch = NoBatch
    /\ Len(history) < MaxCalls
    /\ \E args \in CallArgs : Scored(args[1], args[2])
    /\ UNCHANGED <<corpus, library, batch>>
    /\ UNCHANGED <<phonVars, textVars, brandVars, artistVars, migrateVars, storeVars>>

IsFresh == batch = NoBatch /\ history = <<>>

\* analyze_all_artists up to its loop: the model is built first
StartAnalyzeAllArtists ==
    /\ IsFresh
    /\ analyzer' = BuildTfidfModel(analyzer, library, corpus)
    /\ reference' = BuildTfidfModel(reference, Working(library), corpus)
    /\ calls' = [calls EXCEPT !.fit_attempts = @ + FitAttempts(library)]
    /\ batch' = [kind |-> "analyze_all_artists", pending |-> corpus]
    /\ UNCHANGED <<corpus, library, history>>
    /\ UNCHANGED <<phonVars, textVars, brandVars, artistVars, migrateVars, storeVars>>

\* compute_all_scores up to its loop: the model is built when the database
\* holds lyrics; the artists are those of the corpus and one without lyrics
StartComputeAllScores ==
    /\ IsFresh
    /\ IF corpus # <<>>
       THEN /\ analyzer' = BuildTfidfModel(analyzer, library, corpus)
            /\ reference' = BuildTfidfModel(reference, Working(library), corpus)
            /\ calls' = [calls EXCEPT !.fit_attempts = @ + FitAttempts(library)]
       ELSE UNCHANGED <<analyzer, reference, calls>>
    /\ batch' = [kind |-> "compute_all_scores",
                 pending |-> corpus \o << <<STRANGER, EmptyText>> >>]
    /\ UNCHANGED <<corpus, library, history>>
    /\ UNCHANGED <<phonVars, textVars, brandVars, artistVars, migrateVars, storeVars>>

\* one turn of the loop of the batch
ScoreNextArtist ==
    /\ batch.pending # <<>>
    /\ Scored(Head(batch.pending)[1], Head(batch.pending)[2])
    /\ batch' = [batch EXCEPT !.pending = Tail(@)]
    /\ UNCHANGED <<corpus, library>>
    /\ UNCHANGED <<phonVars, textVars, brandVars, artistVars, migrateVars, storeVars>>

InnovNext ==
    \/ CallCalculateVocabularyDistinctiveness
    \/ CallCalculateInnovationScore
    \/ StartAnalyzeAllArtists
    \/ StartComputeAllScores
    \/ ScoreNextArtist

SpecInnov == InnovInit /\ [][InnovNext]_vars

\* C4: two calls of one operation of the analyzer with the same arguments
\* return the same value, whatever was called in between
C4_Deterministic ==
    \A i \in 1..Len(history) : \A j \in (i + 1)..Len(history) :
        (/\ history[i].fn = history[j].fn
         /\ history[i].artist_id = history[j].artist_id
         /\ history[i].lyrics = history[j].lyrics) =>
            history[i].value = history[j].value

BatchDone == batch # NoBatch /\ batch.pending = <<>>

\* C5: at the end of a batch over at least one artist fit_transform was
\* called exactly once (never, where the library is missing) and the corpus
\* vocabulary was built exactly once
C5_BuiltOnce ==
    (BatchDone /\ Len(corpus) >= 1) =>
        /\ calls.fit_attempts = (IF library.SKLEARN_AVAILABLE THEN 1 ELSE 0)
        /\ calls.vocab_builds = 1

\* the words of the artist of the corpus at index i
CorpusWords(i) == LyricsWords(corpus[i][2], 3000)
OtherWords(i) == UNION {Range(CorpusWords(k)) : k \in (1..Len(corpus)) \ {i}}
\* every word of the artist is repeated in its lyrics and occurs in the
\* lyrics of another artist
AllRepeatedAndShared(i) ==
    /\ CorpusWords(i) # <<>>
    /\ \A w \in Range(CorpusWords(i)) : Counter(CorpusWords(i))[w] >= 2 /\ w \in OtherWords(i)
\* every word of the artist occurs once in its lyrics and in no lyrics of
\* another artist
AllOnceAndOwn(i) ==
    /\ CorpusWords(i) # <<>>
    /\ \A w \in Range(CorpusWords(i)) : Counter(CorpusWords(i))[w] = 1 /\ w \notin OtherWords(i)

\* the entry k of the history holds the score of the artist at index i
IsScoreOf(k, i) ==
    /\ history[k].fn = "calculate_innovation_score"
    /\ history[k].artist_id = corpus[i][1]
    /\ history[k].lyrics = corpus[i][2]

\* C7: in a corpus of at least three artists scored by
\* calculate_innovation_score, an artist whose words are all repeated and
\* shared gets a vocabulary distinctiveness strictly below that of an artist
\* whose words all occur once and are its own
C7_Discriminates ==
    Len(corpus) >= 3 =>
        \A a, b \in 1..Len(history) : \A i, j \in 1..Len(corpus) :
            (/\ IsScoreOf(a, i)
             /\ IsScoreOf(b, j)
             /\ AllRepeatedAndShared(i)
             /\ AllOnceAndOwn(j)) =>
                history[a].value.vocabulary_distinctiveness
                    < history[b].value.vocabulary_distinctiveness

\* the library is missing, the fit raised, or the corpus has no vector for
\* the artist
NoModelFor(artist_id) ==
    \/ ~library.SKLEARN_AVAILABLE
    \/ FitRaises(library, corpus)
    \/ artist_id \notin Ids(corpus)

\* C10: without a TF-IDF vector for the artist calculate_innovation_score
\* returns style uniqueness 50.0, the three other components it returns
\* with a working library, and the 0.40/0.30/0.20/0.10 weighted sum as total
C10_NeutralDefault ==
    \A k \in 1..Len(history) :
        (history[k].fn = "calculate_innovation_score" /\ NoModelFor(history[k].artist_id)) =>
            /\ history[k].value.style_uniqueness = 50000
            /\ history[k].value.vocabulary_distinctiveness
                    = history[k].reference.vocabulary_distinctiveness
            /\ history[k].value.first_mover_score = history[k].reference.first_mover_score
            /\ history[k].value.genre_fusion_score = history[k].reference.genre_fusion_score
            /\ history[k].value.total_score =
                    (50000 * 400
                     + history[k].value.vocabulary_distinctiveness * 300
                     + history[k].value.first_mover_score * 200
                     + history[k].value.genre_fusion_score * 100) \div 1000

\* the fit raised: the artist got the neutral 50.0 where the working
\* library gives another style uniqueness, and the other components are
\* not zero
C10_Witness ==
    /\ library.fit_raises
    /\ \E k \in 1..Len(history) :
        /\ history[k].fn = "calculate_innovation_score"
        /\ history[k].value.style_uniqueness = 50000
        /\ history[k].reference.style_uniqueness = 100000
        /\ history[k].value.vocabulary_distinctiveness > 0
        /\ history[k].value.first_mover_score > 30000
        /\ history[k].value.genre_fusion_score > 0

-----------------------------------------------------------------------------
(* The final score of every analyzer                                       *)
(*                                                                         *)
(* Each analyzer is called once on its arguments: the text analyzers on    *)
(* short and on long texts, the table-driven ones on an artist, and the    *)
(* analyzers that take data of a collector, a corpus or a library on each  *)
(* of a few of them.                                                       *)

MaxLongLines == 10

LINE_STREET == <<"rue", "rue", "rue", "rue", "rue", "rue", "rue", "rue", "rue", "rue">>
LINE_THEMES == <<"rue", "dieu", "roi", "foi", "vie", "mort", "la", "la", "la", "la">>
LINE_PLAIN  == <<"la", "la", "la", "la", "la", "la", "la", "la", "la", "la">>
LINE_TREND  == <<"nft", "la", "la", "la", "la", "la", "la", "la", "la", "la">>
LINE_NAME   == <<"pnl", "pnl", "pnl", "pnl", "pnl", "pnl", "pnl", "pnl", "pnl", "pnl">>
LongLines == {LINE_STREET, LINE_THEMES, LINE_PLAIN, LINE_TREND}

Repeat(line, k) == [i \in 1..k |-> line]

\* texts of about 100 words, just below and at the thresholds of the
\* analyzers, and texts of more than 300 words
LongTexts ==
    {Repeat(first, MaxLongLines \div 2) \o Repeat(second, n - MaxLongLines \div 2) :
        first \in LongLines, second \in LongLines, n \in {MaxLongLines - 1, MaxLongLines}}
    \cup {Repeat(first, 3 * MaxLongLines) \o <<second>> :
            first \in {LINE_STREET, LINE_PLAIN}, second \in {LINE_PLAIN, LINE_TREND}}

ShortTexts == SeqsBetween({<<>>, LINE_SHORT, LINE_PUNCH}, 1, MIN_LINES)

BOOBA == <<"b","o","o","b","a">>

ScoresInit ==
    /\ \/ lyrics \in ShortTexts /\ artist = <<>>
       \/ lyrics \in LongTexts /\ artist = BOOBA
       \/ lyrics = EmptyText /\ artist \in ArtistIds
    /\ result = NoResult
    /\ PhonIdle
    /\ BrandIdle
    /\ InnovIdle
    /\ MigrateIdle
    /\ StoreIdle

\* what the Wikipedia collector returns for an artist
WIKI_DATA ==
    {<<>>,
     <<[backlinks_count |-> 100, pageviews_monthly |-> 50000,
        languages_count |-> 10, references_count |-> 50]>>,
     <<[backlinks_count |-> 400, pageviews_monthly |-> 1000000,
        languages_count |-> 40, references_count |-> 500]>>}

\* what the awards collector returns for an artist
AWARDS_DATA ==
    {<<>>,
     <<[weighted_awards_score |-> 30, weighted_certs_score |-> 45]>>,
     <<[weighted_awards_score |-> 200, weighted_certs_score |-> 400]>>}

\* corpora in which other artists name booba, by his name or by another,
\* or name pnl a hundred times
ScoreCorpora ==
    {<<>>,
     << <<BOOBA, << <<"booba", "la", "rue">> >> >>,
        <<CORPUS_IDS[2], << <<"booba", "la", "rue">> >> >>,
        <<CORPUS_IDS[3], << <<"b2o", "b2o", "la">> >> >> >>,
     << <<CORPUS_IDS[2], Repeat(LINE_NAME, MaxLongLines)>>,
        <<CORPUS_IDS[3], LYRICS_MIXED>>,
        <<BOOBA, LYRICS_ONCE>> >>}

\* the lemmatizer and the library as calculate_consistency finds them
NLPS ==
    {[SKLEARN_AVAILABLE |-> FALSE, lemmas |-> 0, fit_raises |-> FALSE, avg_similarity |-> 0]}
    \cup {[SKLEARN_AVAILABLE |-> TRUE, lemmas |-> n, fit_raises |-> fit[1],
           avg_similarity |-> fit[2]] :
            n \in {0, 10 * MaxLongLines, 30 * MaxLongLines + 1},
            fit \in {<<TRUE, 0>>, <<FALSE, 0>>, <<FALSE, 500>>, <<FALSE, 1001>>}}

\* InfluenceAnalyzer().calculate_influence_score(artist, wiki_data, awards_data, all_lyrics)
CallCalculateInfluenceScore ==
    \E wiki_data \in WIKI_DATA, awards_data \in AWARDS_DATA, all_lyrics \in ScoreCorpora :
        Call("calculate_influence_score",
             CalculateInfluenceScore(artist, wiki_data, awards_data, all_lyrics))

\* IntegrityAnalyzer().calculate_integrity_score(artist, lyrics); the
\* tokenizer returns at most one lemma for a word of the text
CallCalculateIntegrityScore ==
    \E nlp \in NLPS :
        /\ nlp.lemmas <= TextWordCount(lyrics)
        /\ Call("calculate_integrity_score", CalculateIntegrityScore(artist, lyrics, nlp))

\* ThematicAnalyzer().calculate_coherence_score(lyrics, artist)
CallCalculateCoherenceScore ==
    Call("calculate_coherence_score", CalculateCoherenceScore(lyrics))

\* InnovationAnalyzer().calculate_innovation_score(artist, lyrics, all_lyrics)
CallCalculateInnovationScoreOnce ==
    \E all_lyrics \in ScoreCorpora, env \in Envs :
        Call("calculate_innovation_score",
             CalculateInnovationScore(NewAnalyzer, env, artist, lyrics, all_lyrics).value)

ScoresNext ==
    \/ CallCalculateFlowScore
    \/ CallCalculateHookScore
    \/ CallCalculatePunchlineScore
    \/ CallCalculatePeakScore
    \/ CallCalculateInfluenceScore
    \/ CallCalculateIntegrityScore
    \/ CallCalculateCoherenceScore
    \/ CallCalculateInnovationScoreOnce

SpecScores == ScoresInit /\ [][ScoresNext]_vars

TOTAL_FUNCTIONS ==
    {"calculate_innovation_score", "calculate_integrity_score",
     "calculate_influence_score", "calculate_peak_score"}

\* C1: the score of calculate_flow_score, calculate_hook_score and
\* calculate_punchline_score, the total score of the Innovation, Integrity,
\* Influence and Peak analyzers and the coherence score of the Thematic
\* analyzer lie in [0, 100] on every input
C1_ScoresInRange ==
    /\ result.fn \in SCORE_FUNCTIONS => result.value >= 0 /\ result.value <= 100
    /\ result.fn \in TOTAL_FUNCTIONS =>
            result.value.total_score >= 0 /\ result.value.total_score <= 100000
    /\ result.fn = "calculate_coherence_score" =>
            result.value.coherence_score >= 0 /\ result.value.coherence_score <= 100000

\* the punchline score of a text whose base score is 100 and whose four
\* bonuses are at their caps: 125 before the clamp
C1_Witness ==
    /\ result.fn = "calculate_punchline_score"
    /\ Len(NonEmptyLines(lyrics)) >= MIN_LINES
    /\ PunchlineRawScore(lyrics, NonEmptyLines(lyrics)) = 125000
    /\ result.value = 100

-----------------------------------------------------------------------------
(* The migration: collect_external_data, compute_all_scores and            *)
(* update_artists_json on one list of artists                              *)

MaxBatch == 2

\* what artists.json holds of an artist before the migration
OLD_METRICS ==
    [innovationScore |-> 40, artisticIntegrity |-> 40, influenceScore |-> 40,
     thematicCoherence |-> 40, peakAlbumScore |-> 40]

\* two artists of the tables and one the tables do not know
ARTIST_POOL ==
    {[id |-> <<"k","e","r","y","-","j","a","m","e","s">>,
      name |-> <<"K","e","r","y"," ","J","a","m","e","s">>, metrics |-> OLD_METRICS],
     [id |-> <<"p","n","l">>, name |-> <<"P","N","L">>, metrics |-> OLD_METRICS],
     [id |-> STRANGER, name |-> <<"Z","o","l","a">>, metrics |-> OLD_METRICS]}

\* the lists of at most MaxBatch artists, no artist twice
ArtistLists ==
    {l \in SeqsBetween(ARTIST_POOL, 0, MaxBatch) :
        \A i, j \in 1..Len(l) : i # j => l[i] # l[j]}

\* what db.get_all_artists_lyrics() returns: nothing, or lyrics of three artists
MigrateCorpora ==
    {<<>>,
     << << <<"b","o","o","b","a">>, LYRICS_REPEATED >>,
        << <<"k","e","r","y","-","j","a","m","e","s">>, LYRICS_MIXED >>,
        << <<"p","n","l">>, LYRICS_ONCE >> >>}

MigrateEnvs == {e \in Envs : e.cosine.centroid = 500 /\ e.SKLEARN_AVAILABLE}

\* what the Wikipedia collector finds for an artist
WIKI_METRICS ==
    {<<>>,
     <<[backlinks_count |-> 100, pageviews_monthly |-> 50000,
        languages_count |-> 10, references_count |-> 50]>>}

\* what collect_external_data(artists, skip) returns where the Wikipedia
\* collector finds wiki_metrics for every artist, or nothing
ExternalData(artist_list, skip, wiki_metrics) ==
    IF skip THEN [wiki_data |-> <<>>, awards_data |-> <<>>]
    ELSE [wiki_data |-> IF wiki_metrics = <<>> THEN <<>>
                        ELSE [i \in 1..Len(artist_list) |->
                                 <<artist_list[i].id, wiki_metrics[1]>>],
          awards_data |-> [i \in 1..Len(artist_list) |->
                              <<artist_list[i].id,
                                ArtistAwardsToDict(
                                    GetArtistAwards(artist_list[i].name))>>]]

\* the analyzer calls that raise in one turn of the loop: none, one, all
FaultSets == {{}} \cup {{METRICS[i]} : i \in 1..Len(METRICS)} \cup {Range(METRICS)}

MigrateInit ==
    /\ artists \in ArtistLists
    /\ corpus \in MigrateCorpora
    /\ library \in MigrateEnvs
    /\ analyzer = NewAnalyzer
    /\ external = NoExternal
    /\ scores = <<>>
    /\ run = [NoRun EXCEPT !.phase = "loaded"]
    /\ reference = None
    /\ batch = None
    /\ history = <<>>
    /\ calls = None
    /\ PhonIdle
    /\ TextIdle
    /\ BrandIdle
    /\ ArtistIdle
    /\ StoreIdle

\* collect_external_data(artists, skip): the Wikipedia collector finds the
\* same metrics for every artist, or none
CollectExternalData ==
    /\ run.phase = "loaded"
    /\ \E skip \in BOOLEAN, wiki_metrics \in WIKI_METRICS :
        external' = ExternalData(artists, skip, wiki_metrics)
    /\ run' = [run EXCEPT !.phase = "collected"]
    /\ UNCHANGED <<artists, scores, innovVars>>
    /\ UNCHANGED <<phonVars, textVars, brandVars, artistVars, storeVars>>

\* compute_all_scores up to its loop
ComputeAllScoresBegin ==
    /\ run.phase = "collected"
    /\ analyzer' = IF corpus # <<>> THEN BuildTfidfModel(analyzer, library, corpus)
                   ELSE analyzer
    /\ run' = [run EXCEPT !.phase = "scoring", !.pending = artists]
    /\ UNCHANGED <<artists, external, scores>>
    /\ UNCHANGED <<corpus, library, reference, batch, history, calls>>
    /\ UNCHANGED <<phonVars, textVars, brandVars, artistVars, storeVars>>

\* one turn of the loop of compute_all_scores
ComputeAllScoresStep ==
    /\ run.phase = "scoring"
    /\ run.pending # <<>>
    /\ LET Turn(artist_id, computed) ==
            \E raised \in FaultSets :
                /\ analyzer' = ArtistScores(analyzer, computed, raised).self
                /\ scores' = Put(scores, artist_id,
                                 ArtistScores(analyzer, computed, raised).result)
                /\ run' = [run EXCEPT !.pending = Tail(@),
                                      !.raised = @ \cup {<<artist_id, m>> : m \in raised}]
       IN  Turn(Head(run.pending).id,
                Computed(analyzer, library, Head(run.pending).id, corpus,
                         external.wiki_data, external.awards_data))
    /\ UNCHANGED <<artists, external>>
    /\ UNCHANGED <<corpus, library, reference, batch, history, calls>>
    /\ UNCHANGED <<phonVars, textVars, brandVars, artistVars, storeVars>>

\* update_artists_json(artists, scores) once compute_all_scores has returned
UpdateArtistsJson ==
    /\ run.phase = "scoring"
    /\ run.pending = <<>>
    /\ artists' = UpdateArtists(artists, scores)
    /\ run' = [run EXCEPT !.phase = "updated"]
    /\ UNCHANGED <<external, scores, innovVars>>
    /\ UNCHANGED <<phonVars, textVars, brandVars, artistVars, storeVars>>

MigrateNext ==
    \/ CollectExternalData
    \/ ComputeAllScoresBegin
    \/ ComputeAllScoresStep
    \/ UpdateArtistsJson

SpecMigrate == MigrateInit /\ [][MigrateNext]_vars

\* compute_all_scores has returned
ScoresReturned == run.phase \in {"scoring", "updated"} /\ run.pending = <<>>

\* the keys of the dict a metric's to_dict() returns, artist_id apart
DICT_KEYS ==
    [innovation |-> {"style_uniqueness", "vocabulary_distinctiveness", "first_mover_score",
                     "genre_fusion_score", "total_score"},
     integrity  |-> {"consistency_score", "independence_score", "trend_resistance",
                     "feature_selectivity", "total_score"},
     influence  |-> {"wikipedia_score", "awards_score", "citation_score",
                     "charts_efficiency", "total_score"},
     thematic   |-> {"dominant_theme", "dominant_theme_weight", "theme_entropy",
                     "coherence_score"},
     peak       |-> {"peak_album_score", "classic_tracks_count", "classic_tracks_score",
                     "total_score"}]

\* C11: once compute_all_scores has returned, every artist of the list has
\* an entry with all five metrics; a metric whose analyzer call raised for
\* the artist is the fallback 50, and every other metric of every artist
\* is the dict its analyzer returned
C11_GracefulBatch ==
    ScoresReturned =>
        \A i \in 1..Len(artists) :
            /\ Lookup(scores, artists[i].id) # <<>>
            /\ LET Entry(entry, computed) ==
                    /\ DOMAIN entry = Range(METRICS)
                    /\ \A m \in Range(METRICS) :
                        IF <<artists[i].id, m>> \in run.raised
                        THEN entry[m] = Fallback(m)
                        ELSE /\ DOMAIN entry[m] = DICT_KEYS[m]
                             /\ m # "innovation" => entry[m] = computed.result[m]
               IN  Entry(Lookup(scores, artists[i].id)[1],
                         Computed(NewAnalyzer, library, artists[i].id, corpus,
                                  external.wiki_data, external.awards_data))

\* the first artist's Integrity call raised and the list has a later artist
C11_Witness ==
    /\ ScoresReturned
    /\ Len(artists) = 2
    /\ <<artists[1].id, "integrity">> \in run.raised
    /\ \A m \in Range(METRICS) : m # "integrity" => <<artists[1].id, m>> \notin run.raised
    /\ \A m \in Range(METRICS) : <<artists[2].id, m>> \notin run.raised
    /\ Lookup(scores, artists[1].id)[1].integrity = [total_score |-> 50000]
    /\ Lookup(scores, artists[1].id)[1].peak.total_score > 50000

\* the weighted totals of the four analyzers without state, as they are
\* before to_dict()
Totals(env, artist_id, all_lyrics, wiki_data, awards_data) ==
    [integrity |-> CalculateIntegrityScore(
                       artist_id, LyricsOf(all_lyrics, artist_id),
                       NlpOf(env, LyricsOf(all_lyrics, artist_id))).total_score,
     influence |-> CalculateInfluenceScore(
                       artist_id, Lookup(wiki_data, artist_id),
                       Lookup(awards_data, artist_id), all_lyrics).total_score,
     thematic  |-> CalculateCoherenceScore(LyricsOf(all_lyrics, artist_id)).coherence_score,
     peak      |-> CalculatePeakScore(artist_id).total_score]

\* C14: the integer update_artists_json stores for a metric is the
\* analyzer's total, clamped to 0..100 and rounded to the nearest integer
C14_StoredRounded ==
    run.phase = "updated" =>
        \A i \in 1..Len(artists) :
            LET Stored(entry, totals) ==
                    /\ <<artists[i].id, "innovation">> \notin run.raised =>
                           artists[i].metrics.innovationScore
                               = ClampScore(entry.innovation.total_score)
                    /\ \A m \in DOMAIN totals :
                           <<artists[i].id, m>> \notin run.raised =>
                               artists[i].metrics[METRIC_FIELDS[m]] = ClampScore(totals[m])
            IN  Stored(Lookup(scores, artists[i].id)[1],
                       Totals(library, artists[i].id, corpus,
                              external.wiki_data, external.awards_data))

-----------------------------------------------------------------------------
(* The citation score of one artist over one corpus                        *)

\* identifiers of one word and of two, the two joined by '-' or by '_'
CITED_IDS ==
    << <<"b","o","o","b","a">>,
       <<"k","e","r","y","-","j","a","m","e","s">>,
       <<"K","e","r","y","_","J","a","m","e","s">> >>

LYRICS_BOOBA == << <<"booba", "la", "rue">>, <<"b2o">> >>
LYRICS_KERY  == << <<"rue", "kery", "james">> >>

\* every corpus of the three artists, each with lyrics that name nobody,
\* name booba twice or name kery james once
CiteCorpora ==
    {[i \in 1..Len(CITED_IDS) |-> <<CITED_IDS[i], choice[i]>>] :
        choice \in [1..Len(CITED_IDS) -> {LYRICS_ONCE, LYRICS_BOOBA, LYRICS_KERY}]}

CiteInit ==
    /\ artist \in Range(CITED_IDS) \cup {STRANGER}
    /\ corpus \in CiteCorpora
    /\ lyrics = EmptyText
    /\ result = NoResult
    /\ library = None
    /\ analyzer = None
    /\ reference = None
    /\ batch = None
    /\ history = <<>>
    /\ calls = None
    /\ PhonIdle
    /\ BrandIdle
    /\ MigrateIdle
    /\ StoreIdle

\* InfluenceAnalyzer().calculate_citation_score(artist, corpus)
CallCalculateCitationScore ==
    Call("calculate_citation_score", CalculateCitationScore(artist, corpus))

CiteNext == CallCalculateCitationScore

SpecCite == CiteInit /\ [][CiteNext]_vars

\* all_lyrics without the entry keyed by the identifier
OtherArtists(all_lyrics, artist_id) ==
    SelectSeq(all_lyrics, LAMBDA entry : entry[1] # artist_id)

\* C12: the citation score of an artist is the one computed from the
\* lyrics of the other artists alone: the entry of all_lyrics keyed by the
\* artist's own identifier contributes nothing
C12_OwnLyricsSkipped ==
    result.fn = "calculate_citation_score" =>
        result.value = CalculateCitationScore(artist, OtherArtists(corpus, artist))

-----------------------------------------------------------------------------
(* The theme distribution of one text                                      *)

ThemesInit ==
    /\ lyrics \in ShortTexts \cup LongTexts \cup {EmptyText}
    /\ result = NoResult
    /\ PhonIdle
    /\ BrandIdle
    /\ ArtistIdle
    /\ InnovIdle
    /\ MigrateIdle
    /\ StoreIdle

\* ThematicAnalyzer().detect_themes(lyrics)
CallDetectThemes == Call("detect_themes", DetectThemes(lyrics))

ThemesNext == CallDetectThemes

SpecThemes == ThemesInit /\ [][ThemesNext]_vars

\* no word of the text is a keyword of a theme
NoThemeKeyword(text) ==
    \A i \in 1..Len(SplitWords(text)) : \A t \in 1..Len(THEME_KEYWORDS) :
        Spell(SplitWords(text)[i]) \notin THEME_KEYWORDS[t]

\* every theme has the weight 1 / len(THEME_KEYWORDS)
IsUniform(distribution) ==
    \A t \in 1..Len(distribution.counts) :
        distribution.counts[t] * Len(THEME_KEYWORDS) = distribution.total

\* C13: for a text without a theme keyword, of whatever length, detect_themes
\* returns the uniform distribution; and whatever the text, the weights
\* it returns sum to 1
C13_UniformWithoutKeywords ==
    result.fn = "detect_themes" =>
        /\ NoThemeKeyword(lyrics) => IsUniform(result.value)
        /\ SumSeq(result.value.counts) = result.value.total

-----------------------------------------------------------------------------
(* Texts of one line said over and over                                    *)

MaxRepeat == 5

\* last words with a suffix of the table, with a silent final letter, and
\* of a single letter the fallback rules leave nothing of
REPEAT_WORDS == {"x", "est", "enfant", "on", "Mandela", "rue"}

RepeatLines == SeqsBetween(REPEAT_WORDS, 1, 2)

RepeatInit ==
    /\ \E line \in RepeatLines, n \in MIN_LINES..MaxRepeat : lyrics = Repeat(line, n)
    /\ result = NoResult
    /\ PhonIdle
    /\ BrandIdle
    /\ ArtistIdle
    /\ InnovIdle
    /\ MigrateIdle
    /\ StoreIdle

RepeatNext ==
    \/ CallCalculateHookMetrics
    \/ CallCalculateFlowMetrics

SpecRepeat == RepeatInit /\ [][RepeatNext]_vars

\* n >= 4 lines, all the same, none empty, the last word of letters
IdenticalLines(text) ==
    /\ Len(text) >= 4
    /\ \A i \in 1..Len(text) : text[i] = text[1]
    /\ text[1] # <<>>
    /\ \A c \in Range(Spell(text[1][Len(text[1])])) : LowerChar(c) \in Range(LOWERCASE)

\* C15: for a text of n >= 4 identical non-empty lines whose last word is
\* alphabetic, the repetition sub-score of the hook metrics is above 0 and
\* the rhyme density of the flow metrics is 1.0
C15_RepetitionDetected ==
    IdenticalLines(lyrics) =>
        /\ result.fn = "calculate_hook_metrics" => result.value.repetition > 0
        /\ result.fn = "calculate_flow_metrics" => result.value.rhyme_density = 1000

\* the flow metrics of lines that end in the single letter x
C15_Witness ==
    /\ IdenticalLines(lyrics)
    /\ lyrics[1][Len(lyrics[1])] = "x"
    /\ result.fn = "calculate_flow_metrics"
    /\ result.value.rhyme_density = 1000

-----------------------------------------------------------------------------
(* Rhyme checks on words that end in a suffix of RHYME_PATTERNS            *)

\* what stands before the suffix: v-ent, m-ent (the entry "ment"),
\* ti-on (the entry "tion")
SUFFIX_STEMS == {<<"v">>, <<"m">>, <<"t", "i">>}

SuffixWords ==
    {stem \o RHYME_PATTERNS[k][1] : stem \in SUFFIX_STEMS, k \in 1..Len(RHYME_PATTERNS)}

SuffixInit ==
    /\ word1 \in SuffixWords
    /\ word2 \in SuffixWords
    /\ rhyme = NoRhyme
    /\ TextIdle
    /\ BrandIdle
    /\ ArtistIdle
    /\ InnovIdle
    /\ MigrateIdle
    /\ StoreIdle

SuffixNext == \E s \in 1..3 : CallRhymesWith(s)

SpecSuffix == SuffixInit /\ [][SuffixNext]_vars

\* both words end in suffixes of the table that map to the same phoneme code
SameCodeSuffixes(w1, w2) ==
    \E i, j \in 1..Len(RHYME_PATTERNS) :
        /\ EndsWith(w1, RHYME_PATTERNS[i][1])
        /\ EndsWith(w2, RHYME_PATTERNS[j][1])
        /\ RHYME_PATTERNS[i][2] = RHYME_PATTERNS[j][2]

\* C16: rhymes_with(a, b, s) is true iff the two phonetic endings at s are
\* equal and non-empty, and two words that both end in suffixes of the table
\* with the same phoneme code rhyme at every strictness 1, 2 and 3
C16_SameCodeSuffixesRhyme ==
    \A s \in 1..3 :
        rhyme[s] # "none" =>
            /\ rhyme[s] = "true" <=>
                   /\ GetPhoneticEnding(word1, s) = GetPhoneticEnding(word2, s)
                   /\ GetPhoneticEnding(word1, s) # <<>>
            /\ SameCodeSuffixes(word1, word2) => rhyme[s] = "true"

-----------------------------------------------------------------------------
(* Slang normalization of one string, in both modes                        *)

MaxSlangWords == 3

\* slang in small letters, with a capital and a comma, in brackets, of
\* several standard words, and two words that are no slang
SLANG_POOL ==
    {<<"r","e","u","f">>, <<"R","e","u","f",",">>, <<"(","l","a",")">>,
     <<"i","n","s","h","a","l","l","a","h">>, <<"r","u","e">>, <<"R","u","e">>}

SlangTexts == {JoinBlank(words) : words \in SeqsBetween(SLANG_POOL, 1, MaxSlangWords)}

SlangInit ==
    /\ original \in SlangTexts
    /\ previous = NoResult
    /\ PhonIdle
    /\ TextIdle
    /\ ArtistIdle
    /\ InnovIdle
    /\ MigrateIdle
    /\ StoreIdle

\* one call normalize_slang(original, keep_original_for_rhymes)
CallNormalizeSlang ==
    \E keep \in BOOLEAN :
        Call("normalize_slang", [keep |-> keep, text |-> NormalizeSlang(original, keep)])

SlangNext == CallNormalizeSlang

SpecSlang == SlangInit /\ [][SlangNext]_vars

IsSlang(word) == SlangIndex(SlangKey(word)) # 0

\* the standard form of a slang word, with the capital of the word
Canonical(word) ==
    IF IsUpperChar(word[1]) THEN Capitalize(ALL_SLANG[SlangIndex(SlangKey(word))][2])
    ELSE ALL_SLANG[SlangIndex(SlangKey(word))][2]

\* s is what is left of t after taking elements out
RECURSIVE IsSubsequence(_, _)
IsSubsequence(s, t) ==
    IF s = <<>> THEN TRUE
    ELSE IF t = <<>> THEN FALSE
    ELSE IF Head(s) = Head(t) THEN IsSubsequence(Tail(s), Tail(t))
    ELSE IsSubsequence(s, Tail(t))

\* C17: without the flag every slang token is replaced by its standard
\* form; with the flag every slang token is in the output as written and
\* the words of its standard form are in the output too; in both modes the
\* tokens that are no slang are in the output in their order
C17_TwoModes ==
    result.fn = "normalize_slang" =>
        LET Modes(words, out) ==
                /\ ~result.value.keep =>
                       out = Flatten([i \in 1..Len(words) |->
                                         IF IsSlang(words[i]) THEN Split(Canonical(words[i]))
                                         ELSE <<words[i]>>])
                /\ result.value.keep =>
                       \A i \in 1..Len(words) :
                           IsSlang(words[i]) =>
                               /\ words[i] \in Range(out)
                               /\ Range(Split(Canonical(words[i]))) \subseteq Range(out)
                /\ IsSubsequence(SelectSeq(words, LAMBDA w : ~IsSlang(w)), out)
        IN  Modes(Split(original), Split(result.value.text))

-----------------------------------------------------------------------------
(* Syllable counts of one string                                           *)

MaxSyllLen == 5

\* vowels that fold into a digraph, the mute e, the s of -es, a consonant,
\* a blank, and a letter the pattern of count_syllables_french leaves out
SyllAlphabet == {"a", "u", "e", "s", "t", " ", "c,"}

SyllInit ==
    /\ word1 \in SeqsBetween(SyllAlphabet, 0, MaxSyllLen)
    /\ word2 = <<>>
    /\ rhyme = NoRhyme
    /\ TextIdle
    /\ BrandIdle
    /\ ArtistIdle
    /\ InnovIdle
    /\ MigrateIdle
    /\ StoreIdle

CallCountSyllablesFrench == Call("count_syllables_french", CountSyllables(word1))

SyllNext == CallCountSyllablesFrench

SpecSyll == SyllInit /\ [][SyllNext]_vars

-----------------------------------------------------------------------------
(* The best-album score against the base score of the certification        *)

\* C19: for an artist of PEAK_ALBUMS the best-album score is the base score
\* of the certification level (90, 70, 50) plus a bonus between 0 and 10,
\* so it is never below the base score, and it is within 0..100
C19_BonusNeverNegative ==
    (/\ result.fn = "calculate_peak_album_score"
     /\ TableKey(ArtistKey(artist)) \in DOMAIN PEAK_ALBUMS) =>
        LET Bounded(base_score) ==
                /\ result.value >= base_score
                /\ result.value <= base_score + 10000
                /\ result.value >= 0
                /\ result.value <= 100000
        IN  Bounded(CERT_SCORES[PEAK_ALBUMS[TableKey(ArtistKey(artist))][2]])

-----------------------------------------------------------------------------
(* The awards score of the migration against the collected record          *)

\* awards and certifications of a collected record, over the benchmark 150
AwardsAndCertifications(record) ==
    Min(100000, ((record.weighted_awards_score
                  + record.weighted_certifications_score) * 100000) \div 150)

\* C20: the awards_score compute_all_scores records for an artist with a
\* collected awards record is min(100, (weighted awards + weighted
\* certifications) / 150 * 100), so two artists with equal awards and
\* different certifications have different awards scores below the cap
C20_CertificationsCount ==
    ScoresReturned =>
        LET Collected(i) ==
                /\ Lookup(external.awards_data, artists[i].id) # <<>>
                /\ <<artists[i].id, "influence">> \notin run.raised
            Record(i) == Lookup(external.awards_data, artists[i].id)[1]
            AwardsScore(i) == Lookup(scores, artists[i].id)[1].influence.awards_score
        IN  /\ \A i \in 1..Len(artists) :
                   Collected(i) =>
                       AwardsScore(i) = Round2(AwardsAndCertifications(Record(i)))
            /\ \A i, j \in 1..Len(artists) :
                   (/\ Collected(i)
                    /\ Collected(j)
                    /\ Record(i).weighted_awards_score = Record(j).weighted_awards_score
                    /\ Record(i).weighted_certifications_score
                           # Record(j).weighted_certifications_score
                    /\ AwardsAndCertifications(Record(i)) < 100000
                    /\ AwardsAndCertifications(Record(j)) < 100000)
                   => AwardsScore(i) # AwardsScore(j)

-----------------------------------------------------------------------------
(* The unique-word count of one text under one state of the library        *)

\* word counts below, at and far above the 100 words the factor asks for
WORD_COUNTS == {1, 99, 100, 30000}

\* lemma counts around the places where the cap of 12000 starts to bind
\* for the factors 1.5, 1 and 0.5
LEMMA_COUNTS == {0, 1, 3, 99, 8000, 8001, 12000, 12001, 24001, 24002}

\* blank lyrics, lyrics of which the filter leaves nothing, and texts of
\* words; a text has at least as many words as unique lemmas
MeasuredTexts ==
    {[blank |-> TRUE, words |-> 0, lemmas |-> 0],
     [blank |-> FALSE, words |-> 0, lemmas |-> 0]}
    \cup UNION {{[blank |-> FALSE, words |-> w, lemmas |-> n] :
                     n \in {m \in LEMMA_COUNTS : m <= w}} : w \in WORD_COUNTS}

\* mtld() raising, and values from 0 to 200
MTLD_OUTCOMES ==
    {<<>>, <<0>>, <<39000>>, <<40000>>, <<79000>>, <<80000>>, <<100000>>,
     <<120000>>, <<121000>>, <<200000>>}

RichnessEnvs ==
    {[LEXICALRICHNESS_AVAILABLE |-> a, mtld |-> m] : a \in BOOLEAN, m \in MTLD_OUTCOMES}

UniqueInit ==
    /\ original \in MeasuredTexts
    /\ library \in RichnessEnvs
    /\ previous = NoResult
    /\ lyrics = EmptyText
    /\ result = NoResult
    /\ corpus = <<>>
    /\ analyzer = None
    /\ reference = None
    /\ batch = None
    /\ history = <<>>
    /\ calls = None
    /\ PhonIdle
    /\ ArtistIdle
    /\ MigrateIdle
    /\ StoreIdle

CallCalculateUniqueWords ==
    Call("calculate_unique_words", CalculateUniqueWords(original, library))

UniqueNext == CallCalculateUniqueWords

SpecUnique == UniqueInit /\ [][UniqueNext]_vars

\* the factor is left at 1.0
FactorIsOne ==
    \/ ~library.LEXICALRICHNESS_AVAILABLE
    \/ library.mtld = <<>>
    \/ original.words < 100

\* C21 as stated: the count is an integer between floor(0.5 * raw) and
\* min(12000, floor(1.5 * raw)), is raw (capped) when the factor is 1.0,
\* never exceeds 12000, and is 0 for blank lyrics
C21_BetweenHalfAndCap ==
    result.fn = "calculate_unique_words" =>
        /\ result.value \in Nat
        /\ result.value >= original.lemmas \div 2
        /\ result.value <= Min(12000, (3 * original.lemmas) \div 2)
        /\ FactorIsOne => result.value = Min(12000, original.lemmas)
        /\ original.blank => result.value = 0

\* C21, amended: the count is an integer between min(12000, floor(0.5 * raw))
\* and min(12000, floor(1.5 * raw)): the cap of 12000 also binds the lower
\* end; it is raw (capped) when the factor is 1.0 and 0 for blank lyrics
C21_BetweenCappedHalfAndCap ==
    result.fn = "calculate_unique_words" =>
        /\ result.value \in Nat
        /\ result.value >= Min(12000, original.lemmas \div 2)
        /\ result.value <= Min(12000, (3 * original.lemmas) \div 2)
        /\ FactorIsOne => result.value = Min(12000, original.lemmas)
        /\ original.blank => result.value = 0

\* the factor 1.5 on 8001 lemmas, cut to the cap
C21_Witness ==
    /\ result.fn = "calculate_unique_words"
    /\ ~FactorIsOne
    /\ library.mtld = <<200000>>
    /\ original.lemmas = 8001
    /\ result.value = 12000

-----------------------------------------------------------------------------
(* The citation score against the count of every search term               *)

\* C22: the citation score is min(100, 10 * the number of other artists
\* whose lyrics hold a search term + the number of occurrences of the name
\* and of every alias in the lyrics of the other artists); an artist with
\* several of the terms is counted once among the mentioning artists
C22_AllTermsCounted ==
    result.fn = "calculate_citation_score" =>
        LET Raw(artist_key, search_terms) ==
                LET Others == {i \in 1..Len(corpus) : Lower(corpus[i][1]) # artist_key}
                    Occurrences(i) ==
                        SumSeq([t \in 1..Len(search_terms) |->
                                   StrCount(Lower(TextChars(corpus[i][2])), search_terms[t])])
                    mentioned_by == {i \in Others : Occurrences(i) > 0}
                    mention_count ==
                        SumSeq([i \in 1..Len(corpus) |->
                                   IF i \in Others THEN Occurrences(i) ELSE 0])
                IN  Cardinality(mentioned_by) * 10 + mention_count
        IN  result.value
                = Min(100000, 1000 * Raw(ArtistKey(artist), SearchTerms(ArtistKey(artist))))

-----------------------------------------------------------------------------
(* The chunks of calculate_consistency for every length of the lemma list  *)

MaxLemmas == 1111

\* lyrics of more words than MaxLemmas, each a lemma of the tokenizer
LYRICS_CHUNKED == Repeat(LINE_PLAIN, MaxLemmas \div 10 + 1)

ChunkNlps ==
    {[SKLEARN_AVAILABLE |-> a, lemmas |-> n, fit_raises |-> fit[1], avg_similarity |-> fit[2]] :
        a \in BOOLEAN, n \in 0..MaxLemmas,
        fit \in {<<TRUE, 0>>, <<FALSE, 500>>, <<FALSE, 1001>>}}

ChunkInit ==
    /\ \/ lyrics = LYRICS_CHUNKED /\ library \in ChunkNlps
       \/ lyrics = EmptyText /\ library \in {e \in ChunkNlps : e.lemmas = 0}
    /\ result = NoResult
    /\ corpus = <<>>
    /\ analyzer = None
    /\ reference = None
    /\ batch = None
    /\ history = <<>>
    /\ calls = None
    /\ PhonIdle
    /\ BrandIdle
    /\ ArtistIdle
    /\ MigrateIdle
    /\ StoreIdle

\* IntegrityAnalyzer().calculate_consistency(lyrics, artist_id)
CallCalculateConsistency ==
    Call("calculate_consistency", CalculateConsistency(lyrics, library))

ChunkNext == CallCalculateConsistency

SpecChunks == ChunkInit /\ [][ChunkNext]_vars

\* the chunks are full, of the size max(100, N div 10), one after the
\* other from the first lemma on, and at most 10
ChunksWellFormed(n) ==
    LET Formed(chunks, chunk_size) ==
            /\ Len(chunks) <= 10
            /\ \A k \in 1..Len(chunks) :
                   /\ chunks[k].stop - chunks[k].start = chunk_size
                   /\ chunks[k].stop <= n
                   /\ chunks[k].start = IF k = 1 THEN 0 ELSE chunks[k - 1].stop
    IN  Formed(ConsistencyChunks(n), Max(100, n \div 10))

\* C23: a lemma list of length N >= 100 is cut into pairwise disjoint
\* consecutive chunks of the size max(100, N div 10), at most 10 of them;
\* with fewer than 3 chunks the value returned is the neutral default,
\* whatever the model would give, and it is the value returned for fewer
\* than 100 lemmas
C23_ChunksAndNeutralDefault ==
    (/\ result.fn = "calculate_consistency"
     /\ lyrics # EmptyText
     /\ library.SKLEARN_AVAILABLE
     /\ library.lemmas >= 100) =>
        /\ ChunksWellFormed(library.lemmas)
        /\ Len(ConsistencyChunks(library.lemmas)) < 3 =>
               result.value = CalculateConsistency(lyrics, [library EXCEPT !.lemmas = 99])

-----------------------------------------------------------------------------
(* Rhyme checks on plurals in -ains, -eins and -ins                        *)

NASAL_STEMS == {<<"m">>, <<"p","l">>, <<"f">>, <<"t">>}
NASAL_PLURALS == {<<"a","i","n","s">>, <<"e","i","n","s">>, <<"i","n","s">>}

NasalWords == {stem \o ending : stem \in NASAL_STEMS, ending \in NASAL_PLURALS}

NasalInit ==
    /\ word1 \in NasalWords
    /\ word2 \in NasalWords
    /\ rhyme = NoRhyme
    /\ TextIdle
    /\ BrandIdle
    /\ ArtistIdle
    /\ InnovIdle
    /\ MigrateIdle
    /\ StoreIdle

NasalNext == \E s \in 1..3 : CallRhymesWith(s)

SpecNasal == NasalInit /\ [][NasalNext]_vars

\* C24: two words in -ains, -eins or -ins that no suffix of RHYME_PATTERNS
\* ends have the same phonetic ending at strictness 2, the nasal code of
\* 'in', and rhyme with each other
C24_NasalPluralsRhyme ==
    (/\ rhyme[2] # "none"
     /\ FirstPattern(word1, 1) = 0
     /\ FirstPattern(word2, 1) = 0) =>
        /\ GetPhoneticEnding(word1, 2) = GetPhoneticEnding(word2, 2)
        /\ rhyme[2] = "true"


\* ---------------------------------------------------------------------
\* storage/lyrics_db.py: LyricsDatabase, the SQLite store of one artist's
\* songs and cached metrics.  A table keyed by artist_id is a set of rows;
\* songs is the sequence of its rows in rowid order (AUTOINCREMENT: a row
\* written by INSERT OR REPLACE is a new row with the largest rowid).
\* ---------------------------------------------------------------------
MaxDbCalls == 3

DB_ARTISTS == {"booba", "pnl"}

\* the tables keyed by artist_id that a save_* method writes
METRIC_TABLES == {"analysis_cache", "artist_innovation", "artist_integrity",
                  "artist_influence", "artist_themes", "artist_peak",
                  "wikipedia_cache", "awards_cache"}

DB_VALUES == {1, 2}

\* song dicts as the collector hands them over: id is <<>> (None, stored as
\* NULL) when the dict carries no 'id', and <<n>> otherwise
SONG_X == [id |-> <<11>>, title |-> "t", lyrics |-> "x"]
SONG_Y == [id |-> <<12>>, title |-> "u", lyrics |-> "y"]
SONG_Z == [id |-> <<11>>, title |-> "t", lyrics |-> "z"]
SONG_NO_ID == [id |-> <<>>, title |-> "v", lyrics |-> "w"]

SONG_BATCHES == {<<SONG_X>>, <<SONG_X, SONG_Y>>, <<SONG_X, SONG_Z>>,
                 <<SONG_NO_ID>>, <<SONG_Y, SONG_NO_ID>>}

\* _init_db: the tables exist and are empty
EmptyDb == [artists |-> {}, songs |-> <<>>, rows |-> {}]

NoCall == [call |-> "none", artist_id |-> None, songs |-> <<>>, before |-> EmptyDb,
           repeated |-> FALSE, count |-> 0]

\* INSERT OR REPLACE INTO songs: the rows that conflict on the UNIQUE
\* genius_song_id are deleted (NULL conflicts with nothing), the new row is
\* appended
InsertSong(songs_table, artist_id, song) ==
    Append(SelectSeq(songs_table,
                     LAMBDA row : song.id = <<>> \/ row.genius_song_id # song.id),
           [artist_id |-> artist_id, genius_song_id |-> song.id,
            title |-> song.title, lyrics |-> song.lyrics])

RECURSIVE InsertSongs(_, _, _)
InsertSongs(songs_table, artist_id, songs) ==
    IF songs = <<>> THEN songs_table
    ELSE InsertSongs(InsertSong(songs_table, artist_id, Head(songs)), artist_id, Tail(songs))

\* INSERT OR REPLACE into a table whose primary key is artist_id
Upsert(rows, table, artist_id, value) ==
    {row \in rows : ~(row.table = table /\ row.artist_id = artist_id)}
        \cup {[table |-> table, artist_id |-> artist_id, value |-> value]}

\* get_artist_lyrics(artist_id)
GetArtistLyrics(d, artist_id) ==
    LET mine == SelectSeq(d.songs, LAMBDA row : row.artist_id = artist_id)
    IN  [k \in 1..Len(mine) |-> mine[k].lyrics]

\* "\n\n".join(lyrics)
RECURSIVE JoinLyrics(_)
JoinLyrics(texts) ==
    IF texts = <<>> THEN <<>>
    ELSE IF Len(texts) = 1 THEN texts
    ELSE <<Head(texts), "\n\n">> \o JoinLyrics(Tail(texts))

\* get_combined_lyrics(artist_id)
GetCombinedLyrics(d, artist_id) == JoinLyrics(GetArtistLyrics(d, artist_id))

\* get_song_count(artist_id)
GetSongCount(d, artist_id) ==
    Len(SelectSeq(d.songs, LAMBDA row : row.artist_id = artist_id))

\* get_cached_analysis, get_innovation_metrics, ..., get_awards_cache: the
\* row of the table for artist_id as <<row>>, or <<>> for None
GetRow(d, table, artist_id) ==
    IF \E row \in d.rows : row.table = table /\ row.artist_id = artist_id
    THEN <<(CHOOSE row \in d.rows : row.table = table /\ row.artist_id = artist_id).value>>
    ELSE <<>>

DbFrame == UNCHANGED <<phonVars, textVars, brandVars, artistVars, innovVars,
                       migrateVars, pipeline, artists_json>>

Journal(call, artist_id, songs) ==
    [call |-> call, artist_id |-> artist_id, songs |-> songs, before |-> db,
     repeated |-> (journal.call = call /\ journal.artist_id = artist_id
                   /\ journal.songs = songs),
     count |-> journal.count + 1]

\* save_artist(artist_id, name, genius_id)
SaveArtist(artist_id) ==
    /\ journal.count < MaxDbCalls
    /\ db' = [db EXCEPT !.artists = @ \cup {artist_id}]
    /\ journal' = Journal("save_artist", artist_id, <<>>)
    /\ DbFrame

\* save_song(artist_id, genius_song_id, title, lyrics, url)
SaveSong(artist_id, song) ==
    /\ journal.count < MaxDbCalls
    /\ song.id # <<>>
    /\ db' = [db EXCEPT !.songs = InsertSong(@, artist_id, song)]
    /\ journal' = Journal("save_song", artist_id, <<song>>)
    /\ DbFrame

\* save_songs_batch(artist_id, songs)
SaveSongsBatch(artist_id, songs) ==
    /\ journal.count < MaxDbCalls
    /\ db' = [db EXCEPT !.songs = InsertSongs(@, artist_id, songs)]
    /\ journal' = Journal("save_songs_batch", artist_id, songs)
    /\ DbFrame

\* save_analysis, save_innovation_metrics, save_integrity_metrics,
\* save_influence_metrics, save_thematic_metrics, save_peak_metrics,
\* save_wikipedia_cache, save_awards_cache: each replaces the row of its
\* table for artist_id
SaveMetrics(table, artist_id, value) ==
    /\ journal.count < MaxDbCalls
    /\ db' = [db EXCEPT !.rows = Upsert(@, table, artist_id, value)]
    /\ journal' = Journal(table, artist_id, <<>>)
    /\ DbFrame

\* clear_artist_data(artist_id)
ClearArtistData(artist_id) ==
    /\ journal.count < MaxDbCalls
    /\ db' = [db EXCEPT
                !.songs = SelectSeq(@, LAMBDA row : row.artist_id # artist_id),
                !.rows = {row \in @ : ~(row.table = "analysis_cache"
                                        /\ row.artist_id = artist_id)},
                !.artists = @ \ {artist_id}]
    /\ journal' = Journal("clear_artist_data", artist_id, <<>>)
    /\ DbFrame

DbInit ==
    /\ db = EmptyDb
    /\ journal = NoCall
    /\ pipeline = None
    /\ artists_json = None
    /\ PhonIdle
    /\ TextIdle
    /\ BrandIdle
    /\ ArtistIdle
    /\ InnovIdle
    /\ MigrateIdle

DbNext ==
    \/ \E a \in DB_ARTISTS : SaveArtist(a)
    \/ \E a \in DB_ARTISTS, song \in {SONG_X, SONG_Y, SONG_Z} : SaveSong(a, song)
    \/ \E a \in DB_ARTISTS, songs \in SONG_BATCHES : SaveSongsBatch(a, songs)
    \/ \E t \in METRIC_TABLES, a \in DB_ARTISTS, v \in DB_VALUES : SaveMetrics(t, a, v)
    \/ \E a \in DB_ARTISTS : ClearArtistData(a)

SpecDb == DbInit /\ [][DbNext]_vars

\* every table of the database, as the rows it holds for one artist
RowsOf(d, artist_id) ==
    [artists |-> d.artists \cap {artist_id},
     songs |-> SelectSeq(d.songs, LAMBDA row : row.artist_id = artist_id),
     rows |-> {row \in d.rows : row.artist_id = artist_id}]

\* C25: after clear_artist_data(artist_id) no table holds a row for
\* artist_id: get_song_count is 0 and get_cached_analysis and the seven
\* metric and cache getters return None, and the rows of every other
\* artist are as they were before the call.
C25_ClearRemovesAll ==
    journal.call = "clear_artist_data" =>
        /\ GetSongCount(db, journal.artist_id) = 0
        /\ \A t \in METRIC_TABLES : GetRow(db, t, journal.artist_id) = <<>>
        /\ journal.artist_id \notin db.artists
        /\ \A a \in DB_ARTISTS \ {journal.artist_id} :
              RowsOf(db, a) = RowsOf(journal.before, a)

\* C27: saving again the batch that was just saved for the same artist
\* leaves get_song_count and get_combined_lyrics of the artist unchanged,
\* whether or not the songs carry an id, and no Genius song id is stored in
\* two rows.
C27_SongStorageIdempotent ==
    /\ (journal.call = "save_songs_batch" /\ journal.repeated) =>
          /\ GetSongCount(db, journal.artist_id)
                = GetSongCount(journal.before, journal.artist_id)
          /\ GetCombinedLyrics(db, journal.artist_id)
                = GetCombinedLyrics(journal.before, journal.artist_id)
    /\ \A j, k \in 1..Len(db.songs) :
          (j # k /\ db.songs[j].genius_song_id # <<>>)
              => db.songs[j].genius_song_id # db.songs[k].genius_song_id


\* ---------------------------------------------------------------------
\* nlp/french_tokenizer.py: get_nlp, the module-level pipeline _nlp.
\* A loaded pipeline is named by the model it was loaded from.
\* ---------------------------------------------------------------------
MaxNlpCalls == 4

SPACY_MODEL == "fr_core_news_md"

SPACY_MODELS == {"fr_core_news_sm", "fr_core_news_md", "fr_core_news_lg"}

\* _nlp = None at import; loads are the successful spacy.load calls in
\* order, downloads the spacy.cli.download calls, model and returned the
\* argument and the value of the last get_nlp call
NoPipeline == [nlp |-> None, loads |-> <<>>, downloads |-> <<>>,
               model |-> None, returned |-> None, count |-> 0]

\* get_nlp(model): model is None when the argument is omitted; installed
\* tells whether spacy.load finds the model or raises OSError first
GetNlp(model, installed) ==
    /\ pipeline.count < MaxNlpCalls
    /\ LET model_name == IF model # None THEN model ELSE SPACY_MODEL
           load == pipeline.nlp = None \/ (model # None /\ model # SPACY_MODEL)
           loaded == IF load THEN model_name ELSE pipeline.nlp
       IN  pipeline' =
             [nlp |-> loaded,
              loads |-> IF load THEN Append(pipeline.loads, model_name)
                        ELSE pipeline.loads,
              downloads |-> IF load /\ ~installed
                            THEN Append(pipeline.downloads, model_name)
                            ELSE pipeline.downloads,
              model |-> model,
              returned |-> loaded,
              count |-> pipeline.count + 1]
    /\ UNCHANGED <<phonVars, textVars, brandVars, artistVars, innovVars,
                   migrateVars, db, journal, artists_json>>

NlpInit ==
    /\ pipeline = NoPipeline
    /\ db = None
    /\ journal = None
    /\ artists_json = None
    /\ PhonIdle
    /\ TextIdle
    /\ BrandIdle
    /\ ArtistIdle
    /\ InnovIdle
    /\ MigrateIdle

NlpNext == \E model \in SPACY_MODELS \cup {None}, installed \in BOOLEAN :
               GetNlp(model, installed)

SpecNlp == NlpInit /\ [][NlpNext]_vars

\* C29: after any sequence of get_nlp calls every model name has been
\* loaded at most once, and a call without argument returns a pipeline of
\* the default model SPACY_MODEL.
C29_LazySingleton ==
    /\ \A j, k \in 1..Len(pipeline.loads) :
          j # k => pipeline.loads[j] # pipeline.loads[k]
    /\ (pipeline.count > 0 /\ pipeline.model = None)
          => pipeline.returned = SPACY_MODEL


\* ---------------------------------------------------------------------
\* analyzers/integrity.py: calculate_trend_resistance on texts around the
\* 100-word threshold whose last line holds a few trending words
\* ---------------------------------------------------------------------
MaxTrendWords == 3

\* 'drill' is listed in seven years of TRENDING_TERMS_BY_YEAR, 'afro' in
\* four, 'nft' in one; 'la' is in none
TREND_WORDS == {"drill", "afro", "nft"}

TrendTexts ==
    {Repeat(LINE_PLAIN, n) \o <<last>> :
        n \in {9, 10, 40}, last \in SeqsBetween(TREND_WORDS \cup {"la"}, 1, MaxTrendWords)}

TrendInit ==
    /\ lyrics \in TrendTexts
    /\ result = NoResult
    /\ PhonIdle
    /\ BrandIdle
    /\ ArtistIdle
    /\ InnovIdle
    /\ MigrateIdle
    /\ StoreIdle

\* IntegrityAnalyzer().calculate_trend_resistance(lyrics)
CallCalculateTrendResistance ==
    Call("calculate_trend_resistance", CalculateTrendResistance(lyrics))

TrendNext == CallCalculateTrendResistance

SpecTrend == TrendInit /\ [][TrendNext]_vars

\* the occurrences of trending words in the text, each counted once
TrendOccurrences(text) ==
    SumSeq([i \in 1..Len(text) |->
               Len(SelectSeq(text[i], LAMBDA tok : tok \in TREND_WORDS))])

\* C30: every occurrence of a trending term in the lyrics is one hit of the
\* trend density, in however many years the term is listed: the score is
\* 50.0 under 100 words and otherwise the tier (90, 75, 60, 45, 30 below
\* 2, 5, 10, 15 hits per 1000 words and above) of the number of
\* occurrences.
C30_OneHitPerOccurrence ==
    result.fn = "calculate_trend_resistance" =>
        LET hits == TrendOccurrences(lyrics)
            word_count == TextWordCount(lyrics)
        IN  result.value =
                IF word_count < 100 THEN 50000
                ELSE IF hits * 1000 < 2 * word_count THEN 90000
                ELSE IF hits * 1000 < 5 * word_count THEN 75000
                ELSE IF hits * 1000 < 10 * word_count THEN 60000
                ELSE IF hits * 1000 < 15 * word_count THEN 45000
                ELSE 30000


\* ---------------------------------------------------------------------
\* analyzers/innovation.py: analyze_all_artists called again on the same
\* InnovationAnalyzer with other lyrics.  reference is a fresh analyzer
\* that gets the last call only.
\* ---------------------------------------------------------------------
MaxRuns == 2

RerunCorpora ==
    UNION {{[i \in 1..n |-> <<CorpusId(i), choice[i]>>] :
                choice \in [1..n -> {EmptyText, LYRICS_REPEATED, LYRICS_ONCE}]} :
           n \in 1..MaxArtists}

\* the loop of analyze_all_artists from the artist at index k on: the
\* analyzer it leaves and the results, by artist_id
RECURSIVE AnalyzeFrom(_, _, _, _, _)
AnalyzeFrom(self, env, all_lyrics, k, results) ==
    IF k > Len(all_lyrics) THEN [self |-> self, results |-> results]
    ELSE LET Scored1(metrics) ==
                 AnalyzeFrom(metrics.self, env, all_lyrics, k + 1,
                             Append(results, <<all_lyrics[k][1], metrics.value>>))
         IN  Scored1(CalculateInnovationScore(self, env, all_lyrics[k][1],
                                              all_lyrics[k][2], all_lyrics))

\* analyze_all_artists(all_lyrics)
AnalyzeAllArtists(self, env, all_lyrics) ==
    AnalyzeFrom(BuildTfidfModel(self, env, all_lyrics), env, all_lyrics, 1, <<>>)

RerunInit ==
    /\ corpus = <<>>
    /\ library \in Envs
    /\ analyzer = NewAnalyzer
    /\ reference = NewAnalyzer
    /\ batch = NoBatch
    /\ history = <<>>
    /\ calls = NoCalls
    /\ PhonIdle
    /\ TextIdle
    /\ BrandIdle
    /\ ArtistIdle
    /\ MigrateIdle
    /\ StoreIdle

\* analyzer.analyze_all_artists(all_lyrics), and the same call on a fresh
\* InnovationAnalyzer()
CallAnalyzeAllArtists(all_lyrics) ==
    /\ Len(history) < MaxRuns
    /\ LET Both(own, fresh) ==
               /\ analyzer' = own.self
               /\ reference' = fresh.self
               /\ history' = Append(history, [all_lyrics |-> all_lyrics,
                                              results |-> own.results,
                                              fresh |-> fresh.results])
       IN  Both(AnalyzeAllArtists(analyzer, library, all_lyrics),
                AnalyzeAllArtists(NewAnalyzer, library, all_lyrics))
    /\ corpus' = all_lyrics
    /\ UNCHANGED <<library, batch, calls>>
    /\ UNCHANGED <<phonVars, textVars, brandVars, artistVars, migrateVars, storeVars>>

RerunNext == \E all_lyrics \in RerunCorpora : CallAnalyzeAllArtists(all_lyrics)

SpecRerun == RerunInit /\ [][RerunNext]_vars

\* C28: after analyze_all_artists(L1) and then analyze_all_artists(L2) on
\* one analyzer, artist_vectors, corpus_vocab and artist_lemmas_cache are
\* those of a fresh analyzer given L2, with nothing of L1 left, and the
\* scores of the second run are those of the fresh analyzer.
C28_DerivedStateMatchesLastCorpus ==
    Len(history) >= 2 =>
        /\ analyzer.artist_vectors = reference.artist_vectors
        /\ analyzer.corpus_vocab = reference.corpus_vocab
        /\ analyzer.artist_lemmas_cache = reference.artist_lemmas_cache
        /\ history[Len(history)].results = history[Len(history)].fresh


\* ---------------------------------------------------------------------
\* scripts/collect_all.py, recalc_punchlines.py, export_metrics.py and
\* migrate_to_objective.py run on one artists.json and one database.
\* artists_json is the list the file holds; of the database, corpus is the
\* combined lyrics of the songs table by artist and db the rows of
\* analysis_cache by artist.
\* ---------------------------------------------------------------------
MaxScriptRuns == 1

FILE_METRICS ==
    [uniqueWords |-> 40, flowScore |-> 40, punchlineScore |-> 40, hookScore |-> 40,
     innovationScore |-> 40, artisticIntegrity |-> 40, influenceScore |-> 40,
     thematicCoherence |-> 40, peakAlbumScore |-> 40]

FILE_PNL == [id |-> <<"p","n","l">>, name |-> <<"P","N","L">>, metrics |-> FILE_METRICS]
FILE_KERY ==
    [id |-> <<"k","e","r","y","-","j","a","m","e","s">>,
     name |-> <<"K","e","r","y"," ","J","a","m","e","s">>, metrics |-> FILE_METRICS]

ArtistFiles == {<<FILE_PNL>>, <<FILE_PNL, FILE_KERY>>}

\* lyrics of MIN_LINES lines
LYRICS_LINES == Repeat(LINE_SHORT, MIN_LINES)

\* the songs table: no songs, songs of one artist or of both, songs without
\* text
CachedLyrics ==
    {<<>>,
     << <<FILE_PNL.id, LYRICS_LINES>> >>,
     << <<FILE_PNL.id, EmptyText>> >>,
     << <<FILE_PNL.id, LYRICS_ONCE>>, <<FILE_KERY.id, LYRICS_LINES>> >>}

\* the table analysis_cache: empty, or a row for one artist
CachedAnalyses ==
    {<<>>,
     << <<FILE_PNL.id, [unique_words |-> 5000, flow_score |-> 61500,
                        punchline_score |-> 40000, hook_score |-> 40900]>> >>,
     << <<FILE_PNL.id, [unique_words |-> 40, flow_score |-> 40200,
                        punchline_score |-> 40000, hook_score |-> 40900]>> >>}

\* artist["metrics"][field] = value for the fields of the record values
SetMetrics(entry, values) ==
    [entry EXCEPT !.metrics =
        [f \in DOMAIN entry.metrics |->
            IF f \in DOMAIN values THEN values[f] ELSE entry.metrics[f]]]

\* what a run leaves: the list in memory and the list artists.json holds
Saved(file, memory, dry_run) ==
    [memory |-> memory, file |-> IF dry_run THEN file ELSE memory]

\* export_metrics with the file written whatever dry_run is
ExportMetrics_AlwaysSave(file, cache, dry_run) ==
    LET Exported(entry) ==
            LET cached == Lookup(cache, entry.id)
                new_values ==
                    [uniqueWords    |-> cached[1].unique_words,
                     flowScore      |-> ToInt(cached[1].flow_score),
                     punchlineScore |-> ToInt(cached[1].punchline_score),
                     hookScore      |-> ToInt(cached[1].hook_score)]
            IN  IF cached = <<>> THEN entry
                ELSE IF \E k \in DOMAIN new_values : entry.metrics[k] # new_values[k]
                THEN SetMetrics(entry, new_values)
                ELSE entry
    IN  Saved(file, [i \in 1..Len(file) |-> Exported(file[i])], FALSE)

\* export_metrics(dry_run)
ExportMetrics(file, cache, dry_run) ==
    LET Exported(entry) ==
            LET cached == Lookup(cache, entry.id)
                new_values ==
                    [uniqueWords    |-> cached[1].unique_words,
                     flowScore      |-> ToInt(cached[1].flow_score),
                     punchlineScore |-> ToInt(cached[1].punchline_score),
                     hookScore      |-> ToInt(cached[1].hook_score)]
            IN  IF cached = <<>> THEN entry
                ELSE IF \E k \in DOMAIN new_values : entry.metrics[k] # new_values[k]
                THEN SetMetrics(entry, new_values)
                ELSE entry
    IN  Saved(file, [i \in 1..Len(file) |-> Exported(file[i])], dry_run)

\* main of recalc_punchlines.py: an artist without cached lyrics is
\* skipped, and the list in memory is updated only without --dry-run
RecalcPunchlines(file, cached_lyrics, dry_run) ==
    LET Recalculated(entry) ==
            LET text == LyricsOf(cached_lyrics, entry.id)
            IN  IF Lookup(cached_lyrics, entry.id) = <<>> \/ text = EmptyText THEN entry
                ELSE IF dry_run THEN entry
                ELSE SetMetrics(entry,
                         [punchlineScore |-> CalculatePunchlineMetrics(text).punchline_score])
    IN  Saved(file, [i \in 1..Len(file) |-> Recalculated(file[i])], dry_run)


\* analyze_artist(db, artist_id) on the combined lyrics text: the metrics
\* it returns; spaCy finds a lemma for every word or for none
AnalyzeArtist(text, opts) ==
    IF text = EmptyText
    THEN [uniqueWords |-> 0, flowScore |-> 0, punchlineScore |-> 0, hookScore |-> 0]
    ELSE [uniqueWords |->
              CalculateUniqueWords(
                  [blank |-> IsBlankText(text), words |-> TextWordCount(text),
                   lemmas |-> IF opts.lemmas THEN TextWordCount(text) ELSE 0],
                  opts.richness),
          flowScore |-> CalculateFlowScore(text),
          punchlineScore |-> CalculatePunchlineScore(text),
          hookScore |-> CalculateHookScore(text)]

\* the row save_analysis stores for the metrics
AnalysisRow(metrics) ==
    [unique_words |-> metrics.uniqueWords, flow_score |-> metrics.flowScore * 1000,
     punchline_score |-> metrics.punchlineScore * 1000,
     hook_score |-> metrics.hookScore * 1000]

\* one turn of the loop of process_all_artists on the artist at index k:
\* the list in memory, the songs and analysis_cache it leaves.  The
\* collector finds opts.found for every artist; opts.full tells whether an
\* artist with songs has MAX_SONGS_PER_ARTIST of them
ProcessArtist(state, k, opts) ==
    LET entry == state.memory[k]
        skipped == opts.skip_collection
                   \/ (Lookup(state.songs, entry.id) # <<>> /\ opts.full /\ ~opts.force)
        songs == IF skipped \/ opts.found = <<>> THEN state.songs
                 ELSE Put(state.songs, entry.id, opts.found[1])
        Analyzed(metrics) ==
            [memory |-> [state.memory EXCEPT ![k] = SetMetrics(entry, metrics)],
             songs |-> songs,
             cache |-> IF LyricsOf(songs, entry.id) = EmptyText THEN state.cache
                       ELSE Put(state.cache, entry.id, AnalysisRow(metrics))]
    IN  IF ~skipped /\ opts.found = <<>> THEN state
        ELSE IF Lookup(songs, entry.id) = <<>> THEN [state EXCEPT !.songs = songs]
        ELSE Analyzed(AnalyzeArtist(LyricsOf(songs, entry.id), opts))

RECURSIVE ProcessFrom(_, _, _)
ProcessFrom(state, todo, opts) ==
    IF todo = <<>> THEN state
    ELSE ProcessFrom(ProcessArtist(state, Head(todo), opts), Tail(todo), opts)

\* process_all_artists(artists, skip_collection, force, specific_artists):
\* specific_artists is a set of names, empty for None
ProcessAllArtists(state, opts) ==
    LET wanted == {Lower(name) : name \in opts.specific_artists}
        artists_to_process ==
            IF opts.specific_artists = {} THEN [k \in 1..Len(state.memory) |-> k]
            ELSE SelectSeq([k \in 1..Len(state.memory) |-> k],
                           LAMBDA k : Lower(state.memory[k].name) \in wanted)
    IN  ProcessFrom(state, artists_to_process, opts)

\* main of collect_all.py: --detailed prints one analysis and returns
CollectAll(file, cached_lyrics, cache, opts) ==
    LET Finished(state) ==
            [memory |-> state.memory, songs |-> state.songs, cache |-> state.cache,
             file |-> Saved(file, state.memory, opts.dry_run).file]
    IN  IF opts.detailed
        THEN [memory |-> file, songs |-> cached_lyrics, cache |-> cache, file |-> file]
        ELSE Finished(ProcessAllArtists(
                          [memory |-> file, songs |-> cached_lyrics, cache |-> cache],
                          opts))

\* the loop of compute_all_scores on the artists pending; the calls of the
\* set raised raise for every artist
RECURSIVE ComputeFrom(_, _, _, _, _, _, _)
ComputeFrom(self, env, pending, all_lyrics, ext, raised, results) ==
    IF pending = <<>> THEN results
    ELSE LET Turn(turn) ==
                 ComputeFrom(turn.self, env, Tail(pending), all_lyrics, ext, raised,
                             Put(results, Head(pending).id, turn.result))
         IN  Turn(ArtistScores(self,
                               Computed(self, env, Head(pending).id, all_lyrics,
                                        ext.wiki_data, ext.awards_data),
                               raised))

\* compute_all_scores(artists, db, wiki_data, awards_data)
ComputeAllScores(artist_list, all_lyrics, env, ext, raised) ==
    ComputeFrom(IF all_lyrics # <<>> THEN BuildTfidfModel(NewAnalyzer, env, all_lyrics)
                ELSE NewAnalyzer,
                env, artist_list, all_lyrics, ext, raised, <<>>)

\* main of migrate_to_objective.py: opts.artist is the --artist filter,
\* <<>> for none; the list is loaded again before it is updated
MigrateToObjective(file, all_lyrics, env, opts) ==
    LET selected ==
            IF opts.artist = <<>> THEN file
            ELSE SelectSeq(file, LAMBDA a : StrCount(Lower(a.name), Lower(opts.artist)) > 0)
        Updated(score_map) ==
            LET updated == UpdateArtists(file, score_map)
            IN  Saved(file,
                      [i \in 1..Len(file) |-> SetMetrics(file[i], updated[i].metrics)],
                      opts.dry_run)
    IN  IF selected = <<>> THEN Saved(file, file, TRUE)
        ELSE Updated(ComputeAllScores(
                         selected, all_lyrics, env,
                         ExternalData(selected, opts.skip_collection, opts.wiki_metrics),
                         opts.raised))

\* the command lines of collect_all.py and what the collector and spaCy
\* answer: the options that a run reads, each combination once
CollectOptions ==
    LET Options(dry_run, detailed, specific_artists, skip_collection, force, full,
                found, lemmas) ==
            [dry_run |-> dry_run, detailed |-> detailed,
             specific_artists |-> specific_artists, skip_collection |-> skip_collection,
             force |-> force, full |-> full, found |-> found, lemmas |-> lemmas,
             richness |-> [LEXICALRICHNESS_AVAILABLE |-> FALSE, mtld |-> <<>>]]
    IN  UNION {
          {Options(dry_run, TRUE, {}, TRUE, FALSE, FALSE, <<>>, TRUE)}
          \cup {Options(dry_run, FALSE, specific_artists, TRUE, FALSE, FALSE, <<>>, lemmas) :
                    specific_artists \in {{}, {FILE_KERY.name}, {STRANGER}},
                    lemmas \in BOOLEAN}
          \cup {Options(dry_run, FALSE, {}, FALSE, refill[1], refill[2], found, TRUE) :
                    refill \in {<<FALSE, FALSE>>, <<FALSE, TRUE>>, <<TRUE, TRUE>>},
                    found \in {<<>>, <<LYRICS_LINES>>}}
          : dry_run \in BOOLEAN}

\* the command lines of migrate_to_objective.py, what the Wikipedia
\* collector finds and the analyzer calls that raise
MigrateOptions ==
    {[dry_run |-> dry_run, artist |-> STRANGER, skip_collection |-> TRUE,
      wiki_metrics |-> <<>>, raised |-> {}] : dry_run \in BOOLEAN}
    \cup {[dry_run |-> dry_run, artist |-> name, skip_collection |-> collect[1],
           wiki_metrics |-> collect[2], raised |-> raised] :
              dry_run \in BOOLEAN, name \in {<<>>, <<"p","n">>},
              collect \in {<<TRUE, <<>>>>} \cup {<<FALSE, w>> : w \in WIKI_METRICS},
              raised \in {{}, Range(METRICS)}}

NoScript == [script |-> "none", dry_run |-> FALSE, before |-> <<>>, memory |-> <<>>,
             count |-> 0]

DryRunInit ==
    /\ artists_json \in ArtistFiles
    /\ corpus \in CachedLyrics
    /\ db \in CachedAnalyses
    /\ library \in {e \in MigrateEnvs : ~e.fit_raises}
    /\ journal = NoScript
    /\ pipeline = None
    /\ analyzer = None
    /\ reference = None
    /\ batch = None
    /\ history = <<>>
    /\ calls = None
    /\ PhonIdle
    /\ TextIdle
    /\ BrandIdle
    /\ ArtistIdle
    /\ MigrateIdle

Ran(script, dry_run, left) ==
    /\ artists_json' = left.file
    /\ journal' = [script |-> script, dry_run |-> dry_run, before |-> artists_json,
                   memory |-> left.memory, count |-> journal.count + 1]

DryRunFrame ==
    UNCHANGED <<phonVars, textVars, brandVars, artistVars, migrateVars, pipeline,
                library, analyzer, reference, batch, history, calls>>

\* python scripts/collect_all.py [--artists ...] [--skip-collection]
\* [--force] [--detailed ...] [--dry-run]
RunCollectAll ==
    /\ journal.count < MaxScriptRuns
    /\ \E opts \in CollectOptions :
        LET Left(left) ==
                /\ Ran("collect_all", opts.dry_run, left)
                /\ corpus' = left.songs
                /\ db' = left.cache
        IN  Left(CollectAll(artists_json, corpus, db, opts))
    /\ DryRunFrame

\* python scripts/recalc_punchlines.py [--dry-run]
RunRecalcPunchlines ==
    /\ journal.count < MaxScriptRuns
    /\ \E dry_run \in BOOLEAN :
        Ran("recalc_punchlines", dry_run, RecalcPunchlines(artists_json, corpus, dry_run))
    /\ UNCHANGED <<corpus, db>>
    /\ DryRunFrame

\* python scripts/export_metrics.py [--dry-run]
RunExportMetrics ==
    /\ journal.count < MaxScriptRuns
    /\ \E dry_run \in BOOLEAN :
        Ran("export_metrics", dry_run, ExportMetrics(artists_json, db, dry_run))
    /\ UNCHANGED <<corpus, db>>
    /\ DryRunFrame

\* python scripts/migrate_to_objective.py [--artist ...] [--dry-run]
\* [--skip-collection]
RunMigrateToObjective ==
    /\ journal.count < MaxScriptRuns
    /\ \E opts \in MigrateOptions :
        Ran("migrate_to_objective", opts.dry_run,
            MigrateToObjective(artists_json, corpus, library, opts))
    /\ UNCHANGED <<corpus, db>>
    /\ DryRunFrame

DryRunNext ==
    \/ RunCollectAll
    \/ RunRecalcPunchlines
    \/ RunExportMetrics
    \/ RunMigrateToObjective

SpecDryRun == DryRunInit /\ [][DryRunNext]_vars

\* C26: a run of collect_all, recalc_punchlines, export_metrics or
\* migrate_to_objective with --dry-run leaves artists.json as it was before
\* the run, whatever the artists and the cached lyrics.
C26_DryRunWritesNothing ==
    (journal.script # "none" /\ journal.dry_run) => artists_json = journal.before

\* a dry run of export_metrics that changed the list in memory
C26_Witness ==
    /\ journal.script = "export_metrics"
    /\ journal.dry_run
    /\ journal.memory # journal.before
    /\ artists_json = journal.before

====
